---- MODULE Spec2Model ----
(***************************************************************************)
(* DBS (Direct Block Store): thin, snapshottable virtual volumes on one    *)
(* backing object.  Model of the Go library: device context, extent map,   *)
(* management operations and the block API of an open volume context.      *)
(*                                                                         *)
(* The backing object is a regular file: a positional write past the last  *)
(* device slot extends the file and succeeds.  One device context is open  *)
(* at a time: every management operation opens, mutates, persists and      *)
(* closes in one call, and a volume context stays open between OpenVolume  *)
(* and CloseVolume.                                                        *)
(***************************************************************************)
EXTENDS Integers, Sequences, FiniteSets, TLC

\* ---------------------------------------------------------------- bounds
MaxVolumes == 2          \* volume slots (MAX_VOLUMES scaled down)
MaxSnapshots == 3        \* snapshot slots (MAX_SNAPSHOTS scaled down)
MaxVolumeExtents == 1    \* largest volume size offered to CreateVolume, in extents
BlocksPerExtent == 2     \* blocks in one extent (1 << BLOCK_BITS_IN_EXTENT scaled down)
TotalDeviceExtents == 2  \* dc.totalDeviceExtents of the modelled device
LargeDeviceExtents == 4  \* dc.totalDeviceExtents of the larger device of SpecLarge
MaxData == 2             \* distinct non-zero block contents
MaxNameBytes == 1        \* MAX_VOLUME_NAME_SIZE scaled down

\* ------------------------------------------------------ program constants
EXTENT_SIZE == 1048576

\* The slots the file can grow to in the model: one past the device table.
SlotLimit == TotalDeviceExtents + 1

Slots == 0 .. (SlotLimit - 1)
BlockIdx == 0 .. (BlocksPerExtent - 1)
Data == 0 .. MaxData
emptyBlock == 0
SnapshotIds == 1 .. MaxSnapshots
VolumeIdx == 0 .. (MaxVolumes - 1)
NameBytes == 1 .. (MaxNameBytes + 1)
VolumeNames == {<<1>>, <<2>>}
VolumeSizes == {EXTENT_SIZE \div 2} \cup {k * EXTENT_SIZE + 1 : k \in 1 .. MaxVolumeExtents}

Min(a, b) == IF a < b THEN a ELSE b

\* ------------------------------------------------------------- records
ZeroExtentMetadata == [SnapshotId |-> 0, ExtentPos |-> 0, BlockBitmap |-> {}]
ZeroSnapshotMetadata == [ParentSnapshotId |-> 0, CreatedAt |-> 0]
ZeroName == [i \in NameBytes |-> 0]
ZeroVolumeMetadata == [SnapshotId |-> 0, VolumeSize |-> 0, VolumeName |-> ZeroName]
ZeroExtentData == [b \in BlockIdx |-> emptyBlock]
NoContext == [open |-> FALSE]

VARIABLES
    superblock,   \* on disk: [AllocatedDeviceExtents]
    volumes,      \* on disk: volume table
    snapshots,    \* on disk: snapshot table
    extents,      \* on disk: extent record per device slot (ExtentPos = volume-relative index)
    blocks,       \* on disk: data of each device slot
    vc,           \* the open volume context, or NoContext
    last,         \* the last call: operation and result (updateMetadata of a successful write)
    snap          \* history: the view frozen by the last CreateSnapshot, while only writes followed

vars == <<superblock, volumes, snapshots, extents, blocks, vc, last, snap>>
disk == <<superblock, volumes, snapshots, extents, blocks>>

\* dc.totalDeviceExtents: the extents of the device in use, as its size gives
\* them (the file holds one record more than the device table).
totalDeviceExtents == Cardinality(DOMAIN extents) - 1

\* copy(dst[:], name) followed by dst[MAX_VOLUME_NAME_SIZE] = 0
setName(old, name) ==
    [i \in NameBytes |->
        IF i = MaxNameBytes + 1 THEN 0
        ELSE IF i <= Len(name) THEN name[i] ELSE old[i]]

\* var vname [MAX_VOLUME_NAME_SIZE + 1]byte; copy(vname[:], volumeName)
nameArray(name) == [i \in NameBytes |-> IF i <= Len(name) THEN name[i] ELSE 0]

\* ------------------------------------------------------ device context
\* The device context mirrors superblock and tables: dc = [superblock, volumes, snapshots].
GetDeviceContext == [superblock |-> superblock, volumes |-> volumes, snapshots |-> snapshots]

FindVolumeFrom(dc, vname, i) ==
    LET RECURSIVE F(_)
        F(k) == IF k = MaxVolumes THEN -1
                ELSE IF dc.volumes[k].SnapshotId # 0 /\ dc.volumes[k].VolumeName = vname THEN k
                ELSE F(k + 1)
    IN F(i)

\* Index of the first in-use slot with that name, -1 for nil.
FindVolume(dc, volumeName) == FindVolumeFrom(dc, nameArray(volumeName), 0)

\* Identifier of the first in-use snapshot whose parent is snapshotId, 0 if none.
FindChildSnapshot(dc, snapshotId) ==
    LET RECURSIVE F(_)
        F(i) == IF i = MaxSnapshots THEN 0
                ELSE IF dc.snapshots[i + 1].CreatedAt # 0
                        /\ dc.snapshots[i + 1].ParentSnapshotId = snapshotId THEN i + 1
                ELSE F(i + 1)
    IN F(0)

\* First volume slot whose tip is sid, -1 if none.
VolumeWithTip(dc, sid) ==
    LET RECURSIVE F(_)
        F(i) == IF i = MaxVolumes THEN -1
                ELSE IF dc.volumes[i].SnapshotId = sid THEN i
                ELSE F(i + 1)
    IN F(0)

\* Walk the descendants of snapshotId until a volume tip is found; -1 for nil.
\* fuel bounds the walk: a walk longer than the table is a cycle (the loop never ends).
FindVolumeWithSnapshot(dc, snapshotId) ==
    LET RECURSIVE F(_, _)
        F(sid, fuel) ==
            IF sid = 0 \/ fuel = 0 THEN -1
            ELSE IF VolumeWithTip(dc, sid) # -1 THEN VolumeWithTip(dc, sid)
            ELSE F(FindChildSnapshot(dc, sid), fuel - 1)
    IN F(snapshotId, MaxSnapshots + 1)

\* A faulty slot search, scanning the volume table from its end.
FirstFreeVolume_FromEnd(dc) ==
    LET RECURSIVE F(_)
        F(vidx) == IF vidx < 0 THEN MaxVolumes
                   ELSE IF dc.volumes[vidx].SnapshotId # 0 THEN F(vidx - 1) ELSE vidx
    IN F(MaxVolumes - 1)

FirstFreeVolume(dc) ==
    LET RECURSIVE F(_)
        F(vidx) == IF vidx < MaxVolumes /\ dc.volumes[vidx].SnapshotId # 0 THEN F(vidx + 1) ELSE vidx
    IN F(0)

FirstFreeSnapshot(dc) ==
    LET RECURSIVE F(_)
        F(sidx) == IF sidx < MaxSnapshots /\ dc.snapshots[sidx + 1].CreatedAt # 0 THEN F(sidx + 1) ELSE sidx
    IN F(0)

\* A faulty AddSnapshot, taking the slot without recording the parent.
AddSnapshot_KeepsParent(dc, parentSnapshotId) ==
    LET sidx == FirstFreeSnapshot(dc) IN
    IF sidx = MaxSnapshots
    THEN [err |-> "OutOfSnapshotSlots", sid |-> 0, dc |-> dc]
    ELSE [err |-> "ok", sid |-> sidx + 1,
          dc |-> [dc EXCEPT !.snapshots[sidx + 1].CreatedAt = 1]]

\* AddSnapshot: [err, sid, dc].  CreatedAt is time.Now().Unix(), a non-zero stamp.
AddSnapshot(dc, parentSnapshotId) ==
    LET sidx == FirstFreeSnapshot(dc) IN
    IF sidx = MaxSnapshots
    THEN [err |-> "OutOfSnapshotSlots", sid |-> 0, dc |-> dc]
    ELSE [err |-> "ok", sid |-> sidx + 1,
          dc |-> [dc EXCEPT !.snapshots[sidx + 1] =
                     [ParentSnapshotId |-> parentSnapshotId, CreatedAt |-> 1]]]

\* AddVolume: [err, vidx, dc]
AddVolume(dc, volumeName, volumeSize) ==
    LET vidx == FirstFreeVolume(dc) IN
    IF vidx = MaxVolumes
    THEN [err |-> "OutOfVolumeSlots", vidx |-> -1, dc |-> dc]
    ELSE LET s == AddSnapshot(dc, 0) IN
         IF s.err # "ok"
         THEN [err |-> s.err, vidx |-> -1, dc |-> dc]
         ELSE [err |-> "ok", vidx |-> vidx,
               dc |-> [s.dc EXCEPT !.volumes[vidx] =
                          [SnapshotId |-> s.sid,
                           VolumeSize |-> (volumeSize \div EXTENT_SIZE) * EXTENT_SIZE,
                           VolumeName |-> setName(dc.volumes[vidx].VolumeName, volumeName)]]]

\* GetVolumeInfo: the in-use volumes in slot order.
GetVolumeInfo(dc) ==
    LET RECURSIVE F(_)
        F(i) == IF i = MaxVolumes THEN <<>>
                ELSE IF dc.volumes[i].SnapshotId = 0 THEN F(i + 1)
                ELSE <<[VolumeName |-> dc.volumes[i].VolumeName,
                        VolumeSize |-> dc.volumes[i].VolumeSize,
                        SnapshotId |-> dc.volumes[i].SnapshotId]>> \o F(i + 1)
    IN F(0)

\* GetSnapshotInfo's loop: the chain from the snapshot sid to the root.  A chain
\* longer than the table is a loop that never ends; the walk stops one past it.
SnapshotChain(dc, sid) ==
    LET RECURSIVE F(_, _)
        F(id, fuel) ==
            IF id = 0 \/ fuel = 0 THEN <<>>
            ELSE <<[SnapshotId |-> id, ParentSnapshotId |-> dc.snapshots[id].ParentSnapshotId]>>
                 \o F(dc.snapshots[id].ParentSnapshotId, fuel - 1)
    IN F(sid, MaxSnapshots + 1)

\* ---------------------------------------------------------- extent map
\* ExtentMap = [totalVolumeExtents, extentBitmap, extents, panic]; in extents the
\* field ExtentPos is the device slot.  panic: an index past the slice (the Go
\* runtime stops the process), or a parent walk that never ends.
NewExtentMap(deviceSize) ==
    [totalVolumeExtents |-> deviceSize \div EXTENT_SIZE,
     extentBitmap |-> {},
     extents |-> [v \in 0 .. ((deviceSize \div EXTENT_SIZE) - 1) |-> ZeroExtentMetadata],
     panic |-> FALSE]

\* Get the map of a specific snapshot: scan the records of the slots below
\* min(totalDeviceExtents, allocated) in slot order.
GetSnapshotExtentMap(dc, ext, deviceSize, snapshotId) ==
    LET remaining == Min(totalDeviceExtents, dc.superblock.AllocatedDeviceExtents)
        RECURSIVE Scan(_, _)
        Scan(i, sem) ==
            IF i >= remaining \/ sem.panic THEN sem
            ELSE IF ext[i].SnapshotId = snapshotId
            THEN LET eidx == ext[i].ExtentPos IN
                 IF eidx >= sem.totalVolumeExtents
                 THEN [sem EXCEPT !.panic = TRUE]
                 ELSE Scan(i + 1, [sem EXCEPT !.extentBitmap = @ \cup {eidx},
                                              !.extents[eidx] = [ext[i] EXCEPT !.ExtentPos = i]])
            ELSE Scan(i + 1, sem)
    IN Scan(0, NewExtentMap(deviceSize))

\* A faulty fold, letting the ancestor's entry replace a nearer snapshot's.
FoldAncestor_Overwrite(vem, sem) ==
    [vem EXCEPT
        !.extents = [x \in DOMAIN vem.extents |->
                        IF x \in sem.extentBitmap THEN sem.extents[x] ELSE vem.extents[x]],
        !.extentBitmap = @ \cup sem.extentBitmap]

\* One ancestor folded into the volume map: entries the map does not have yet.
FoldAncestor(vem, sem) ==
    [vem EXCEPT
        !.extents = [x \in DOMAIN vem.extents |->
                        IF x \in sem.extentBitmap /\ vem.extents[x].SnapshotId = 0
                        THEN sem.extents[x] ELSE vem.extents[x]],
        !.extentBitmap = @ \cup {x \in sem.extentBitmap : vem.extents[x].SnapshotId = 0}]

\* Get the map of a volume starting at a snapshot and including all ancestors.
GetVolumeExtentMap(dc, ext, deviceSize, snapshotId) ==
    LET RECURSIVE Walk(_, _, _)
        Walk(sid, vem, fuel) ==
            IF vem.panic \/ sid = 0 THEN vem
            ELSE IF fuel = 0 THEN [vem EXCEPT !.panic = TRUE]
            ELSE LET sem == GetSnapshotExtentMap(dc, ext, deviceSize, sid) IN
                 IF sem.panic THEN [vem EXCEPT !.panic = TRUE]
                 ELSE Walk(dc.snapshots[sid].ParentSnapshotId, FoldAncestor(vem, sem), fuel - 1)
        first == GetSnapshotExtentMap(dc, ext, deviceSize, snapshotId)
    IN Walk(dc.snapshots[snapshotId].ParentSnapshotId, first, MaxSnapshots)

\* The operations below act on w = [alloc, ext, blk, em]: the in-memory
\* superblock.AllocatedDeviceExtents, the on-disk extent records, the on-disk
\* data, and the extent map.

\* dc.WriteExtent(&e, slot)
DcWriteExtent(ext, e, slot) == [ext EXCEPT ![slot] = e]

\* dc.CopyExtentData(esrc, edst)
CopyExtentData(blk, esrc, edst) == [blk EXCEPT ![edst] = blk[esrc]]

\* Write extent metadata to the device: ExtentPos goes back to the position in the volume.
WriteExtent(w, eidx) ==
    [w EXCEPT !.ext = DcWriteExtent(w.ext, [w.em.extents[eidx] EXCEPT !.ExtentPos = eidx],
                                    w.em.extents[eidx].ExtentPos)]

\* A faulty NewExtentToSnapshot, taking a released slot below the counter when
\* there is one.
NewExtentToSnapshot_ReuseFreed(w, eidx, snapshotId) ==
    LET free == {i \in 0 .. (w.alloc - 1) : w.ext[i].SnapshotId = 0}
        pos == IF free = {} THEN w.alloc ELSE CHOOSE i \in free : \A j \in free : i <= j
        w1 == [w EXCEPT !.em.extents[eidx].SnapshotId = snapshotId,
                        !.em.extents[eidx].ExtentPos = pos]
        w2 == WriteExtent(w1, eidx)
    IN IF free = {} THEN [w2 EXCEPT !.alloc = @ + 1] ELSE w2

\* A faulty NewExtentToSnapshot, advancing the counter by two.
NewExtentToSnapshot_TwoSlots(w, eidx, snapshotId) ==
    LET w1 == [w EXCEPT !.em.extents[eidx].SnapshotId = snapshotId,
                        !.em.extents[eidx].ExtentPos = w.alloc]
        w2 == WriteExtent(w1, eidx)
    IN [w2 EXCEPT !.alloc = @ + 2]

\* Allocate a new extent into the map.
NewExtentToSnapshot(w, eidx, snapshotId) ==
    LET w1 == [w EXCEPT !.em.extents[eidx].SnapshotId = snapshotId,
                        !.em.extents[eidx].ExtentPos = w.alloc]
        w2 == WriteExtent(w1, eidx)
    IN [w2 EXCEPT !.alloc = @ + 1]

\* A faulty copy-on-write, taking the new slot without copying the extent's data.
CopyExtentToSnapshot_NoCopy(w, eidx, snapshotId) ==
    LET w2 == [w EXCEPT !.em.extents[eidx].SnapshotId = snapshotId,
                        !.em.extents[eidx].ExtentPos = w.alloc]
        w3 == WriteExtent(w2, eidx)
    IN [w3 EXCEPT !.alloc = @ + 1]

\* Copy over all data from an extent to another snapshot and update the map.
CopyExtentToSnapshot(w, eidx, snapshotId) ==
    LET psrc == w.em.extents[eidx].ExtentPos
        pdst == w.alloc
        w1 == [w EXCEPT !.blk = CopyExtentData(w.blk, psrc, pdst)]
        w2 == [w1 EXCEPT !.em.extents[eidx].SnapshotId = snapshotId,
                         !.em.extents[eidx].ExtentPos = pdst]
        w3 == WriteExtent(w2, eidx)
    IN [w3 EXCEPT !.alloc = @ + 1]

\* The smallest element of a non-empty set of numbers (bitmap Range goes upwards).
Lowest(S) == CHOOSE x \in S : \A y \in S : x <= y

\* Copy the whole map to another snapshot.
CopyAllToSnapshot(w, snapshotId) ==
    LET RECURSIVE Range(_, _)
        Range(todo, wi) ==
            IF todo = {} THEN wi
            ELSE Range(todo \ {Lowest(todo)}, CopyExtentToSnapshot(wi, Lowest(todo), snapshotId))
    IN Range(w.em.extentBitmap, w)

\* One step of MergeAllInto's callback for extent x: [w, emdst].  The source entry
\* is zeroed before the record to write is taken from it.
MergeExtentInto(m, x, snapshotId) ==
    IF m.emdst.extents[x].SnapshotId # 0 THEN m
    ELSE LET emdst1 == [m.emdst EXCEPT !.extents[x] = [m.w.em.extents[x] EXCEPT !.SnapshotId = snapshotId],
                                       !.extentBitmap = @ \cup {x}]
             em1 == [m.w.em EXCEPT !.extents[x] = ZeroExtentMetadata,
                                   !.extentBitmap = @ \ {x}]
             e == [em1.extents[x] EXCEPT !.ExtentPos = x]
         IN [w |-> [m.w EXCEPT !.em = em1,
                               !.ext = DcWriteExtent(m.w.ext, e, em1.extents[x].ExtentPos)],
             emdst |-> emdst1]

\* Merge the map into the map of another snapshot.
MergeAllInto(w, emdst, snapshotId) ==
    LET RECURSIVE Range(_, _)
        Range(todo, m) ==
            IF todo = {} THEN m
            ELSE Range(todo \ {Lowest(todo)}, MergeExtentInto(m, Lowest(todo), snapshotId))
    IN Range(w.em.extentBitmap, [w |-> w, emdst |-> emdst])

\* Clear all metadata included in the map.
ClearAll(w) ==
    LET RECURSIVE Range(_, _)
        Range(todo, wi) ==
            IF todo = {} THEN wi
            ELSE Range(todo \ {Lowest(todo)},
                       [wi EXCEPT !.ext = DcWriteExtent(wi.ext, ZeroExtentMetadata,
                                                        wi.em.extents[Lowest(todo)].ExtentPos)])
    IN Range(w.em.extentBitmap, w)

\* ------------------------------------------------------------ block API
\* Block numbers offered to the block API: every block of the largest volume, and
\* the first block of the two extents after it.
BlockInputs ==
    {b \in 0 .. ((MaxVolumeExtents + 2) * BlocksPerExtent - 1) :
        b < MaxVolumeExtents * BlocksPerExtent \/ b % BlocksPerExtent = 0}

\* dc.ReadBlockData: the block at dataOffset + epos * EXTENT_SIZE + bidx * BLOCK_SIZE
ReadBlockData(blk, epos, bidx) == blk[epos][bidx]

\* A faulty WriteBlockData, forgetting the extent's position on the device.
WriteBlockData_NoExtentOffset(blk, epos, bidx, data) == [blk EXCEPT ![0][bidx] = data]

\* dc.WriteBlockData: the same place, written
WriteBlockData(blk, epos, bidx, data) == [blk EXCEPT ![epos][bidx] = data]

\* A faulty ReadBlock, returning the slot's data whatever the block bitmap says.
ReadBlock_NoBitmap(c, blk, block, buf) ==
    LET eidx == block \div BlocksPerExtent
        bidx == block % BlocksPerExtent
    IN IF eidx > c.vem.totalVolumeExtents
       THEN [ret |-> "OutOfRange", data |-> buf]
       ELSE IF eidx \notin DOMAIN c.vem.extents
       THEN [ret |-> "panic", data |-> buf]
       ELSE LET e == c.vem.extents[eidx] IN
            IF e.SnapshotId = 0
            THEN [ret |-> "ok", data |-> emptyBlock]
            ELSE [ret |-> "ok", data |-> ReadBlockData(blk, e.ExtentPos, bidx)]

\* ReadBlock on the context c = [dc, volume, vem] over the on-disk data blk:
\* [ret, data], data being the caller's buffer afterwards (buf when it is not filled).
ReadBlock(c, blk, block, buf) ==
    LET eidx == block \div BlocksPerExtent
        bidx == block % BlocksPerExtent
    IN IF eidx > c.vem.totalVolumeExtents
       THEN [ret |-> "OutOfRange", data |-> buf]
       ELSE IF eidx \notin DOMAIN c.vem.extents
       THEN [ret |-> "panic", data |-> buf]
       ELSE LET e == c.vem.extents[eidx] IN
            IF e.SnapshotId = 0 \/ bidx \notin e.BlockBitmap
            THEN [ret |-> "ok", data |-> emptyBlock]
            ELSE [ret |-> "ok", data |-> ReadBlockData(blk, e.ExtentPos, bidx)]

\* The world a volume context works on, and the context after the call.
World(c) == [alloc |-> c.dc.superblock.AllocatedDeviceExtents, ext |-> extents, blk |-> blocks, em |-> c.vem]

\* A faulty fast-path test, forgetting the block bitmap.
FastPathRefused_OwnerOnly(e, tip, bidx) == e.SnapshotId # tip

\* A faulty fast-path test, forgetting who owns the extent.
FastPathRefused_BitOnly(e, tip, bidx) == bidx \notin e.BlockBitmap

\* WriteBlock without updateMetadata gives up when the extent is not the tip's or
\* the block's bit is not set yet.
FastPathRefused(e, tip, bidx) == e.SnapshotId # tip \/ bidx \notin e.BlockBitmap

\* WriteBlock: [ret, w, sb], w the world afterwards and sb the persisted
\* AllocatedDeviceExtents afterwards.
WriteBlockOn(c, w, sb, data, block, updateMetadata) ==
    LET eidx == block \div BlocksPerExtent
        bidx == block % BlocksPerExtent
        tip == c.dc.volumes[c.volume].SnapshotId
    IN IF eidx > c.vem.totalVolumeExtents
       THEN [ret |-> "OutOfRange", w |-> w, sb |-> sb]
       ELSE IF eidx \notin DOMAIN c.vem.extents
       THEN [ret |-> "panic", w |-> w, sb |-> sb]
       ELSE LET e == w.em.extents[eidx] IN
            IF ~updateMetadata /\ FastPathRefused(e, tip, bidx)
            THEN [ret |-> "MetadataNeedsUpdate", w |-> w, sb |-> sb]
            ELSE LET w1 == IF e.SnapshotId = tip THEN w
                           ELSE IF e.SnapshotId = 0 THEN NewExtentToSnapshot(w, eidx, tip)
                           ELSE CopyExtentToSnapshot(w, eidx, tip)
                     \* Update allocation count
                     sb1 == IF e.SnapshotId = tip THEN sb ELSE w1.alloc
                     \* Write data to device
                     w2 == [w1 EXCEPT !.blk = WriteBlockData(w1.blk, w1.em.extents[eidx].ExtentPos, bidx, data)]
                 IN IF bidx \in w2.em.extents[eidx].BlockBitmap
                    THEN [ret |-> "ok", w |-> w2, sb |-> sb1]
                    ELSE [ret |-> "ok",
                          w |-> WriteExtent([w2 EXCEPT !.em.extents[eidx].BlockBitmap = @ \cup {bidx}], eidx),
                          sb |-> sb1]

\* A faulty UnmapBlock, releasing the extent whether or not other blocks remain.
UnmapBlockOn_AlwaysRelease(c, w, block) ==
    LET eidx == block \div BlocksPerExtent
        bidx == block % BlocksPerExtent
    IN IF eidx > c.vem.totalVolumeExtents
       THEN [ret |-> "OutOfRange", w |-> w]
       ELSE IF eidx \notin DOMAIN c.vem.extents
       THEN [ret |-> "panic", w |-> w]
       ELSE LET e == w.em.extents[eidx] IN
            IF e.SnapshotId = 0 \/ bidx \notin e.BlockBitmap
            THEN [ret |-> "ok", w |-> w]
            ELSE LET w1 == [w EXCEPT !.em.extents[eidx].BlockBitmap = @ \ {bidx}]
                     w2 == [w1 EXCEPT !.em.extents[eidx].SnapshotId = 0]
                 IN [ret |-> "ok", w |-> WriteExtent(w2, eidx)]

\* UnmapBlock: [ret, w]
UnmapBlockOn(c, w, block) ==
    LET eidx == block \div BlocksPerExtent
        bidx == block % BlocksPerExtent
    IN IF eidx > c.vem.totalVolumeExtents
       THEN [ret |-> "OutOfRange", w |-> w]
       ELSE IF eidx \notin DOMAIN c.vem.extents
       THEN [ret |-> "panic", w |-> w]
       ELSE LET e == w.em.extents[eidx] IN
            IF e.SnapshotId = 0 \/ bidx \notin e.BlockBitmap
            THEN [ret |-> "ok", w |-> w]
            ELSE LET w1 == [w EXCEPT !.em.extents[eidx].BlockBitmap = @ \ {bidx}]
                     \* Release if not used
                     w2 == IF w1.em.extents[eidx].BlockBitmap = {}
                           THEN [w1 EXCEPT !.em.extents[eidx].SnapshotId = 0]
                           ELSE w1
                 IN [ret |-> "ok", w |-> WriteExtent(w2, eidx)]

\* ------------------------------------------------------------- history
\* What a reader sees at snapshot sid of a volume of that size: the value of every
\* block through the volume map built at sid; every block -1 when building it panics.
ViewAt(dc, ext, blk, deviceSize, sid) ==
    LET vem == GetVolumeExtentMap(dc, ext, deviceSize, sid) IN
    [b \in 0 .. ((deviceSize \div EXTENT_SIZE) * BlocksPerExtent - 1) |->
        IF vem.panic THEN -1 ELSE ReadBlock([vem |-> vem], blk, b, emptyBlock).data]

NoSnap == [valid |-> FALSE]

Call(op, ret) ==
    [op |-> op, ret |-> ret, updateMetadata |-> FALSE]

\* ------------------------------------------------------------------ Init
\* The device after InitDevice: superblock with no allocation, empty tables,
\* zeroed extent records.
Init ==
    /\ superblock = [AllocatedDeviceExtents |-> 0]
    /\ volumes = [i \in VolumeIdx |-> ZeroVolumeMetadata]
    /\ snapshots = [i \in SnapshotIds |-> ZeroSnapshotMetadata]
    /\ extents = [i \in Slots |-> ZeroExtentMetadata]
    /\ blocks = [i \in Slots |-> ZeroExtentData]
    /\ vc = NoContext
    /\ last = Call("InitDevice", "ok")
    /\ snap = NoSnap

\* ---------------------------------------------------- management API
\* WriteMetadata persists the tables of dc.
WriteMetadata(dc) ==
    /\ volumes' = dc.volumes
    /\ snapshots' = dc.snapshots

\* A faulty CreateVolume, adding the volume without looking the name up.
CreateVolumeResult_NoLookup(volumeName, volumeSize) ==
    LET dc == GetDeviceContext IN
    IF volumeSize \div EXTENT_SIZE = 0 THEN [err |-> "ZeroSize", dc |-> dc]
    ELSE LET a == AddVolume(dc, volumeName, volumeSize) IN [err |-> a.err, dc |-> a.dc]

CreateVolumeResult(volumeName, volumeSize) ==
    LET dc == GetDeviceContext IN
    IF volumeSize \div EXTENT_SIZE = 0 THEN [err |-> "ZeroSize", dc |-> dc]
    ELSE IF FindVolume(dc, volumeName) # -1 THEN [err |-> "VolumeExists", dc |-> dc]
    ELSE LET a == AddVolume(dc, volumeName, volumeSize) IN [err |-> a.err, dc |-> a.dc]

CreateVolume(volumeName, volumeSize) ==
    /\ ~vc.open
    /\ LET r == CreateVolumeResult(volumeName, volumeSize) IN
       /\ WriteMetadata(r.dc)
       /\ last' = Call("CreateVolume", r.err)
    /\ snap' = NoSnap
    /\ UNCHANGED <<superblock, extents, blocks, vc>>

RenameVolumeResult(volumeName, newVolumeName) ==
    LET dc == GetDeviceContext
        v == FindVolume(dc, volumeName)
    IN IF v = -1 THEN [err |-> "VolumeNotFound", dc |-> dc]
       ELSE [err |-> "ok",
             dc |-> [dc EXCEPT !.volumes[v].VolumeName = setName(@, newVolumeName)]]

RenameVolume(volumeName, newVolumeName) ==
    /\ ~vc.open
    /\ LET r == RenameVolumeResult(volumeName, newVolumeName) IN
       /\ WriteMetadata(r.dc)
       /\ last' = Call("RenameVolume", r.err)
    /\ snap' = NoSnap
    /\ UNCHANGED <<superblock, extents, blocks, vc>>

CreateSnapshotResult(volumeName) ==
    LET dc == GetDeviceContext
        v == FindVolume(dc, volumeName)
    IN IF v = -1 THEN [err |-> "VolumeNotFound", dc |-> dc, v |-> v, old |-> 0]
       ELSE LET a == AddSnapshot(dc, dc.volumes[v].SnapshotId) IN
            IF a.err # "ok" THEN [err |-> a.err, dc |-> dc, v |-> v, old |-> 0]
            ELSE [err |-> "ok", dc |-> [a.dc EXCEPT !.volumes[v].SnapshotId = a.sid],
                  v |-> v, old |-> dc.volumes[v].SnapshotId]

CreateSnapshot(volumeName) ==
    /\ ~vc.open
    /\ LET r == CreateSnapshotResult(volumeName) IN
       /\ WriteMetadata(r.dc)
       /\ last' = Call("CreateSnapshot", r.err)
    /\ UNCHANGED <<superblock, extents, blocks, vc>>

\* History kept beside CreateSnapshot: what the previous tip showed when the
\* snapshot was taken.
Freeze(volumeName) ==
    LET r == CreateSnapshotResult(volumeName) IN
    snap' = IF r.err = "ok"
            THEN [valid |-> TRUE, sid |-> r.old, vol |-> r.v,
                  view |-> ViewAt(GetDeviceContext, extents, blocks, volumes[r.v].VolumeSize, r.old)]
            ELSE NoSnap

\* The on-disk effects of a management call: [err, dc, ext, blk, alloc], dc the
\* tables and alloc the superblock counter as last persisted by the call.
Effect(err, dc, ext, blk, alloc) == [err |-> err, dc |-> dc, ext |-> ext, blk |-> blk, alloc |-> alloc]

Unchanged(err) == Effect(err, GetDeviceContext, extents, blocks, superblock.AllocatedDeviceExtents)

Persist(r) ==
    /\ superblock' = [AllocatedDeviceExtents |-> r.alloc]
    /\ WriteMetadata(r.dc)
    /\ extents' = r.ext
    /\ blocks' = r.blk

\* A faulty space check, forgetting the extents the clone is about to copy.
CloneExceedsDevice_CounterOnly(dc, vem) ==
    dc.superblock.AllocatedDeviceExtents > totalDeviceExtents

\* The space check of CloneSnapshot.
CloneExceedsDevice(dc, vem) ==
    dc.superblock.AllocatedDeviceExtents + Cardinality(vem.extentBitmap) > totalDeviceExtents

CloneSnapshotResult(newVolumeName, snapshotId) ==
    LET dc == GetDeviceContext
        vsrc == FindVolumeWithSnapshot(dc, snapshotId)
    IN IF vsrc = -1 THEN Unchanged("SnapshotNotFound")
       ELSE LET vem == GetVolumeExtentMap(dc, extents, dc.volumes[vsrc].VolumeSize, snapshotId) IN
            IF vem.panic THEN Unchanged("panic")
            ELSE IF CloneExceedsDevice(dc, vem)
            THEN Unchanged("NoSpace")
            ELSE LET a == AddVolume(dc, newVolumeName, dc.volumes[vsrc].VolumeSize) IN
                 IF a.err # "ok" THEN Unchanged(a.err)
                 ELSE LET w == CopyAllToSnapshot(
                                   [alloc |-> dc.superblock.AllocatedDeviceExtents,
                                    ext |-> extents, blk |-> blocks, em |-> vem],
                                   a.dc.volumes[a.vidx].SnapshotId)
                      IN Effect("ok", a.dc, w.ext, w.blk, w.alloc)

CloneSnapshot(newVolumeName, snapshotId) ==
    /\ ~vc.open
    /\ LET r == CloneSnapshotResult(newVolumeName, snapshotId) IN
       /\ Persist(r)
       /\ last' = Call("CloneSnapshot", r.err)
    /\ snap' = NoSnap
    /\ UNCHANGED vc

\* The loop of DeleteVolume from the tip to the root: [dc, ext, panic].
DeleteChain(dc, ext, deviceSize, tip) ==
    LET RECURSIVE Loop(_, _, _)
        Loop(sid, st, fuel) ==
            IF sid = 0 \/ st.panic THEN st
            ELSE IF fuel = 0 THEN [st EXCEPT !.panic = TRUE]
            ELSE LET sem == GetSnapshotExtentMap(st.dc, st.ext, deviceSize, sid) IN
                 IF sem.panic THEN [st EXCEPT !.panic = TRUE]
                 ELSE LET w == ClearAll([alloc |-> st.dc.superblock.AllocatedDeviceExtents,
                                         ext |-> st.ext, blk |-> blocks, em |-> sem])
                      IN Loop(st.dc.snapshots[sid].ParentSnapshotId,
                              [st EXCEPT !.dc.snapshots[sid].CreatedAt = 0, !.ext = w.ext],
                              fuel - 1)
    IN Loop(tip, [dc |-> dc, ext |-> ext, panic |-> FALSE], MaxSnapshots + 1)

DeleteVolumeResult(volumeName) ==
    LET dc == GetDeviceContext
        v == FindVolume(dc, volumeName)
    IN IF v = -1 THEN Unchanged("VolumeNotFound")
       ELSE LET st == DeleteChain(dc, extents, dc.volumes[v].VolumeSize, dc.volumes[v].SnapshotId) IN
            IF st.panic
            THEN Effect("panic", dc, st.ext, blocks, superblock.AllocatedDeviceExtents)
            ELSE Effect("ok", [st.dc EXCEPT !.volumes[v] = ZeroVolumeMetadata], st.ext, blocks,
                        superblock.AllocatedDeviceExtents)

DeleteVolume(volumeName) ==
    /\ ~vc.open
    /\ LET r == DeleteVolumeResult(volumeName) IN
       /\ Persist(r)
       /\ last' = Call("DeleteVolume", r.err)
    /\ snap' = NoSnap
    /\ UNCHANGED vc

\* A faulty unlinking, giving the child its new parent without freeing the slot.
Unlink_KeepsVictim(dc, snapshotId, childSnapshotId) ==
    [dc EXCEPT !.snapshots[childSnapshotId].ParentSnapshotId =
                   dc.snapshots[snapshotId].ParentSnapshotId]

\* A faulty unlinking, freeing the slot without giving the child its new parent.
Unlink_NoRewire(dc, snapshotId, childSnapshotId) ==
    [dc EXCEPT !.snapshots[snapshotId] = ZeroSnapshotMetadata]

\* The end of DeleteSnapshot: the child takes the parent of the deleted snapshot,
\* whose slot is zeroed.
Unlink(dc, snapshotId, childSnapshotId) ==
    LET dc1 == [dc EXCEPT !.snapshots[childSnapshotId].ParentSnapshotId =
                              dc.snapshots[snapshotId].ParentSnapshotId]
    IN [dc1 EXCEPT !.snapshots[snapshotId] = ZeroSnapshotMetadata]

\* if v.SnapshotId == snapshotId: "cannot delete current snapshot"
IsCurrentSnapshot_Never(dc, v, snapshotId) == FALSE

IsCurrentSnapshot(dc, v, snapshotId) == dc.volumes[v].SnapshotId = snapshotId

DeleteSnapshotResult(snapshotId) ==
    LET dc == GetDeviceContext
        v == FindVolumeWithSnapshot(dc, snapshotId)
    IN IF v = -1 THEN Unchanged("SnapshotNotFound")
       ELSE IF IsCurrentSnapshot(dc, v, snapshotId) THEN Unchanged("CannotDeleteCurrent")
       ELSE LET sem == GetSnapshotExtentMap(dc, extents, dc.volumes[v].VolumeSize, snapshotId)
                childSnapshotId == FindChildSnapshot(dc, snapshotId)
            IN IF sem.panic THEN Unchanged("panic")
               ELSE IF childSnapshotId = 0 THEN Unchanged("CannotDeleteTopLevel")
               ELSE LET cem == GetSnapshotExtentMap(dc, extents, dc.volumes[v].VolumeSize, childSnapshotId) IN
                    IF cem.panic THEN Unchanged("panic")
                    ELSE LET m == MergeAllInto([alloc |-> dc.superblock.AllocatedDeviceExtents,
                                                ext |-> extents, blk |-> blocks, em |-> sem],
                                               cem, childSnapshotId)
                             w == ClearAll(m.w)
                         IN Effect("ok", Unlink(dc, snapshotId, childSnapshotId), w.ext, w.blk,
                                   superblock.AllocatedDeviceExtents)

DeleteSnapshot(snapshotId) ==
    /\ ~vc.open
    /\ LET r == DeleteSnapshotResult(snapshotId) IN
       /\ Persist(r)
       /\ last' = Call("DeleteSnapshot", r.err)
    /\ snap' = NoSnap
    /\ UNCHANGED vc

\* ------------------------------------------------------ volume context
OpenVolume(volumeName) ==
    /\ ~vc.open
    /\ LET dc == GetDeviceContext
           v == FindVolume(dc, volumeName)
           vem == GetVolumeExtentMap(dc, extents, dc.volumes[v].VolumeSize, dc.volumes[v].SnapshotId)
       IN /\ vc' = IF v = -1 \/ vem.panic THEN NoContext
                   ELSE [open |-> TRUE, dc |-> dc, volume |-> v, vem |-> vem]
          /\ last' = Call("OpenVolume", IF v = -1 THEN "VolumeNotFound"
                                        ELSE IF vem.panic THEN "panic" ELSE "ok")
          /\ snap' = IF snap.valid /\ v # -1 /\ snap.vol = v /\ ~vem.panic THEN snap ELSE NoSnap
    /\ UNCHANGED disk

CloseVolume ==
    /\ vc.open
    /\ vc' = NoContext
    /\ last' = Call("CloseVolume", "ok")
    /\ UNCHANGED <<disk, snap>>

ReadBlockCall(block) ==
    /\ vc.open
    /\ LET r == ReadBlock(vc, blocks, block, emptyBlock) IN
       /\ last' = Call("ReadBlock", r.ret)
       /\ vc' = IF r.ret = "panic" THEN NoContext ELSE vc
       /\ snap' = IF r.ret = "panic" THEN NoSnap ELSE snap
    /\ UNCHANGED disk

\* The extent a block API call needs a new device slot for, if any.
NeedsSlot(c, block, updateMetadata) ==
    /\ updateMetadata
    /\ (block \div BlocksPerExtent) \in DOMAIN c.vem.extents
    /\ c.vem.extents[block \div BlocksPerExtent].SnapshotId # c.dc.volumes[c.volume].SnapshotId

WriteBlock(data, block, updateMetadata) ==
    /\ vc.open
    /\ NeedsSlot(vc, block, updateMetadata) => vc.dc.superblock.AllocatedDeviceExtents < totalDeviceExtents + 1
    /\ LET r == WriteBlockOn(vc, World(vc), superblock.AllocatedDeviceExtents, data, block, updateMetadata)
       IN /\ last' = [Call("WriteBlock", r.ret) EXCEPT !.updateMetadata = (r.ret = "ok" /\ updateMetadata)]
          /\ vc' = IF r.ret = "panic" THEN NoContext
                   ELSE [vc EXCEPT !.vem = r.w.em, !.dc.superblock.AllocatedDeviceExtents = r.w.alloc]
          /\ superblock' = [AllocatedDeviceExtents |-> r.sb]
          /\ extents' = r.w.ext
          /\ blocks' = r.w.blk
          /\ snap' = IF r.ret = "panic" THEN NoSnap ELSE snap
    /\ UNCHANGED <<volumes, snapshots>>

UnmapBlock(block) ==
    /\ vc.open
    /\ LET r == UnmapBlockOn(vc, World(vc), block)
       IN /\ last' = Call("UnmapBlock", r.ret)
          /\ vc' = IF r.ret = "panic" THEN NoContext ELSE [vc EXCEPT !.vem = r.w.em]
          /\ extents' = r.w.ext
          /\ blocks' = r.w.blk
    /\ snap' = NoSnap
    /\ UNCHANGED <<superblock, volumes, snapshots>>

\* The first block of every extent a volume can have.
FirstBlocks == {e * BlocksPerExtent : e \in 0 .. (MaxVolumeExtents - 1)}

\* Every operation of the library; the block API is driven with one content and
\* with the first block of each extent.
Next ==
    \/ \E n \in VolumeNames, sz \in VolumeSizes : CreateVolume(n, sz)
    \/ \E n \in VolumeNames, n2 \in VolumeNames : RenameVolume(n, n2)
    \/ \E n \in VolumeNames : CreateSnapshot(n) /\ Freeze(n)
    \/ \E n \in VolumeNames, sid \in 0 .. MaxSnapshots : CloneSnapshot(n, sid)
    \/ \E n \in VolumeNames : DeleteVolume(n)
    \/ \E sid \in 0 .. MaxSnapshots : DeleteSnapshot(sid)
    \/ \E n \in VolumeNames : OpenVolume(n)
    \/ CloseVolume
    \/ \E b \in FirstBlocks : ReadBlockCall(b)
    \/ \E b \in FirstBlocks, u \in BOOLEAN : WriteBlock(1, b, u)
    \/ \E b \in FirstBlocks : UnmapBlock(b)

Spec == Init /\ [][Next]_vars

\* The blocks of a volume of the largest size.
InRangeBlocks == 0 .. (MaxVolumeExtents * BlocksPerExtent - 1)

\* The block API on volumes with snapshot chains: every block, every content,
\* no volume or snapshot is deleted or cloned.
NextIO ==
    \/ \E sz \in VolumeSizes : CreateVolume(<<1>>, sz)
    \/ CreateSnapshot(<<1>>) /\ snap' = NoSnap
    \/ OpenVolume(<<1>>)
    \/ CloseVolume
    \/ \E b \in InRangeBlocks : ReadBlockCall(b)
    \/ \E d \in 1 .. MaxData, b \in InRangeBlocks, u \in BOOLEAN : WriteBlock(d, b, u)
    \/ \E b \in InRangeBlocks : UnmapBlock(b)

SpecIO == Init /\ [][NextIO]_vars

\* The bounds check of the block API: one volume, blocks inside and past its end.
NextRange ==
    \/ \E sz \in VolumeSizes : CreateVolume(<<1>>, sz)
    \/ OpenVolume(<<1>>)
    \/ CloseVolume
    \/ \E b \in BlockInputs : ReadBlockCall(b)
    \/ \E d \in 1 .. MaxData, b \in BlockInputs, u \in BOOLEAN : WriteBlock(d, b, u)
    \/ \E b \in BlockInputs : UnmapBlock(b)

SpecRange == Init /\ [][NextRange]_vars

\* Volumes of different sizes sharing the snapshot table: one and two extents,
\* written at the first block of each extent, snapshotted and pruned.
MixedSizes == {k * EXTENT_SIZE : k \in 1 .. (MaxVolumeExtents + 1)}
MixedBlocks == {e * BlocksPerExtent : e \in 0 .. MaxVolumeExtents}

NextSizes ==
    \/ \E n \in VolumeNames, sz \in MixedSizes : CreateVolume(n, sz)
    \/ \E n \in VolumeNames : CreateSnapshot(n) /\ snap' = NoSnap
    \/ \E sid \in SnapshotIds : DeleteSnapshot(sid)
    \/ \E n \in VolumeNames : OpenVolume(n)
    \/ CloseVolume
    \/ \E b \in MixedBlocks : WriteBlock(1, b, TRUE)

SpecSizes == Init /\ [][NextSizes]_vars

\* ------------------------------------------------------ device layout
\* The constants of the Go library, at their real values: the layout arithmetic
\* of NewDeviceContext is modelled unscaled.
MAX_VOLUMES == 256
MAX_SNAPSHOTS == 65535
MAX_VOLUME_NAME_SIZE == 255
BLOCK_SIZE == 4096
EXTENT_BITMAP_SIZE == 32
SIZEOF_EXTENT_METADATA == 6 + EXTENT_BITMAP_SIZE

\* binary.Size of the tables: uint16 + uint64 + name bytes, and uint16 + int64.
SizeofVolumes == MAX_VOLUMES * (2 + 8 + (MAX_VOLUME_NAME_SIZE + 1))
SizeofSnapshots == MAX_SNAPSHOTS * (2 + 8)

divRoundUp(x, y) == 1 + ((x - 1) \div y)

MinDeviceSize == 100 * EXTENT_SIZE

\* NewDeviceContext: [err, deviceSize, extentOffset, totalDeviceExtents, dataOffset]
NewDeviceContext(deviceSize) ==
    IF deviceSize = 0
    THEN [err |-> "ZeroDevice", deviceSize |-> deviceSize,
          extentOffset |-> 0, totalDeviceExtents |-> 0, dataOffset |-> 0]
    ELSE IF deviceSize < MinDeviceSize
    THEN [err |-> "DeviceTooSmall", deviceSize |-> deviceSize,
          extentOffset |-> 0, totalDeviceExtents |-> 0, dataOffset |-> 0]
    ELSE LET extentOffset == (1 + divRoundUp(SizeofVolumes + SizeofSnapshots, BLOCK_SIZE)) * BLOCK_SIZE
             total0 == (deviceSize - extentOffset) \div EXTENT_SIZE
             metadataSize == extentOffset + total0 * SIZEOF_EXTENT_METADATA
             dataOffset == divRoundUp(metadataSize, EXTENT_SIZE) * EXTENT_SIZE
         IN [err |-> "ok", deviceSize |-> deviceSize,
             extentOffset |-> extentOffset,
             totalDeviceExtents |-> total0 - ((total0 * SIZEOF_EXTENT_METADATA) \div EXTENT_SIZE),
             dataOffset |-> dataOffset]

\* Sizes of the backing object: below the minimum, and from the minimum upwards
\* in steps of an eighth of an extent.
MaxLayoutSteps == 120
LayoutStep == EXTENT_SIZE \div 8
DeviceSizes ==
    {0, MinDeviceSize - BLOCK_SIZE} \cup {MinDeviceSize + k * LayoutStep : k \in 0 .. MaxLayoutSteps}

\* The backing object is given a size.
Truncate(deviceSize) ==
    /\ last' = [op |-> "Truncate", ret |-> "ok", updateMetadata |-> FALSE,
                dc |-> [err |-> "none", deviceSize |-> deviceSize,
                        extentOffset |-> 0, totalDeviceExtents |-> 0, dataOffset |-> 0]]
    /\ UNCHANGED <<superblock, volumes, snapshots, extents, blocks, vc, snap>>

\* NewDeviceContext on the backing object as it is.
OpenDevice ==
    /\ last.op = "Truncate"
    /\ LET dc == NewDeviceContext(last.dc.deviceSize)
       IN last' = [op |-> "NewDeviceContext", ret |-> dc.err, updateMetadata |-> FALSE, dc |-> dc]
    /\ UNCHANGED <<superblock, volumes, snapshots, extents, blocks, vc, snap>>

InitLayout ==
    /\ superblock = [AllocatedDeviceExtents |-> 0]
    /\ volumes = [i \in VolumeIdx |-> ZeroVolumeMetadata]
    /\ snapshots = [i \in SnapshotIds |-> ZeroSnapshotMetadata]
    /\ extents = [i \in Slots |-> ZeroExtentMetadata]
    /\ blocks = [i \in Slots |-> ZeroExtentData]
    /\ vc = NoContext
    /\ snap = NoSnap
    /\ \E deviceSize \in DeviceSizes :
          last = [op |-> "Truncate", ret |-> "ok", updateMetadata |-> FALSE,
                  dc |-> [err |-> "none", deviceSize |-> deviceSize,
                          extentOffset |-> 0, totalDeviceExtents |-> 0, dataOffset |-> 0]]

NextLayout ==
    \/ \E deviceSize \in DeviceSizes : Truncate(deviceSize)
    \/ OpenDevice

SpecLayout == InitLayout /\ [][NextLayout]_vars

\* ------------------------------------------- persistent writes, one by one
\* A faulty write path, leaving out the record update that sets the block's bit.
WriteBlockWrites_NoBitUpdate(c, data, block) ==
    LET eidx == block \div BlocksPerExtent
        bidx == block % BlocksPerExtent
        tip == c.dc.volumes[c.volume].SnapshotId
        e == c.vem.extents[eidx]
        pdst == c.dc.superblock.AllocatedDeviceExtents
        slot == IF e.SnapshotId = tip THEN e.ExtentPos ELSE pdst
        rec == [SnapshotId |-> tip, ExtentPos |-> eidx, BlockBitmap |-> e.BlockBitmap]
        blank == [kind |-> "", slot |-> 0, e |-> ZeroExtentMetadata, alloc |-> 0, bidx |-> 0,
                  data |-> 0, src |-> 0]
    IN (IF e.SnapshotId = tip THEN <<>>
        ELSE <<[blank EXCEPT !.kind = "extent", !.slot = pdst, !.e = rec],
               [blank EXCEPT !.kind = "superblock", !.alloc = pdst + 1]>>)
       \o <<[blank EXCEPT !.kind = "data", !.slot = slot, !.bidx = bidx, !.data = data]>>

\* A faulty copy-on-write, taking the new slot without copying the extent's data.
WriteBlockWrites_NoCopy(c, data, block) ==
    LET eidx == block \div BlocksPerExtent
        bidx == block % BlocksPerExtent
        tip == c.dc.volumes[c.volume].SnapshotId
        e == c.vem.extents[eidx]
        pdst == c.dc.superblock.AllocatedDeviceExtents
        slot == IF e.SnapshotId = tip THEN e.ExtentPos ELSE pdst
        rec == [SnapshotId |-> tip, ExtentPos |-> eidx, BlockBitmap |-> e.BlockBitmap]
        blank == [kind |-> "", slot |-> 0, e |-> ZeroExtentMetadata, alloc |-> 0, bidx |-> 0,
                  data |-> 0, src |-> 0]
    IN (IF e.SnapshotId = tip THEN <<>>
        ELSE <<[blank EXCEPT !.kind = "extent", !.slot = pdst, !.e = rec],
               [blank EXCEPT !.kind = "superblock", !.alloc = pdst + 1]>>)
       \o <<[blank EXCEPT !.kind = "data", !.slot = slot, !.bidx = bidx, !.data = data]>>
       \o (IF bidx \in e.BlockBitmap THEN <<>>
           ELSE <<[blank EXCEPT !.kind = "extent", !.slot = slot,
                                !.e = [rec EXCEPT !.BlockBitmap = @ \cup {bidx}]]>>)

\* A persistent write of the block API: kind "copy" (CopyExtentData of extent
\* src onto slot), "extent" (dc.WriteExtent of record e at slot), "superblock"
\* (WriteSuperblock with counter alloc) or "data" (WriteBlockData).
PWrite(kind, slot, e, alloc, bidx, data, src) ==
    [kind |-> kind, slot |-> slot, e |-> e, alloc |-> alloc, bidx |-> bidx, data |-> data, src |-> src]

\* The persistent writes WriteBlock(data, block, true) issues on context c, in the
\* order of the code; block is inside the volume.
WriteBlockWrites(c, data, block) ==
    LET eidx == block \div BlocksPerExtent
        bidx == block % BlocksPerExtent
        tip == c.dc.volumes[c.volume].SnapshotId
        e == c.vem.extents[eidx]
        pdst == c.dc.superblock.AllocatedDeviceExtents
        slot == IF e.SnapshotId = tip THEN e.ExtentPos ELSE pdst
        rec == [SnapshotId |-> tip, ExtentPos |-> eidx, BlockBitmap |-> e.BlockBitmap]
        \* CopyExtentToSnapshot copies the data first; NewExtentToSnapshot has none
        copy == IF e.SnapshotId = 0 THEN <<>>
                ELSE <<PWrite("copy", pdst, ZeroExtentMetadata, 0, 0, 0, e.ExtentPos)>>
        \* em.WriteExtent, then "Update allocation count"
        allocate == IF e.SnapshotId = tip THEN <<>>
                    ELSE copy \o <<PWrite("extent", pdst, rec, 0, 0, 0, 0),
                                   PWrite("superblock", 0, ZeroExtentMetadata, pdst + 1, 0, 0, 0)>>
        \* "Write data to device", then "Update metadata" unless the bit was set
        update == IF bidx \in e.BlockBitmap THEN <<>>
                  ELSE <<PWrite("extent", slot, [rec EXCEPT !.BlockBitmap = @ \cup {bidx}], 0, 0, 0, 0)>>
    IN allocate \o <<PWrite("data", slot, ZeroExtentMetadata, 0, bidx, data, 0)>> \o update

\* The persistent writes UnmapBlock(block) issues on context c.
UnmapBlockWrites(c, block) ==
    LET eidx == block \div BlocksPerExtent
        bidx == block % BlocksPerExtent
        e == c.vem.extents[eidx]
        bb == e.BlockBitmap \ {bidx}
    IN IF e.SnapshotId = 0 \/ bidx \notin e.BlockBitmap THEN <<>>
       ELSE <<PWrite("extent", e.ExtentPos,
                     [SnapshotId |-> IF bb = {} THEN 0 ELSE e.SnapshotId,
                      ExtentPos |-> eidx, BlockBitmap |-> bb], 0, 0, 0, 0)>>

\* A block API call in progress: what it has issued, what it has yet to issue,
\* and the context and device it ends with.
Running(op, block, data, todo, after) ==
    [op |-> op, ret |-> "running", updateMetadata |-> (op = "WriteBlock"),
     block |-> block, data |-> data, issued |-> <<>>, todo |-> todo, after |-> after]

InProgress == last.ret = "running"

\* The record of a block API call that is over: nothing left to issue.
NoAfter == [em |-> NewExtentMap(0), alloc |-> 0, ext |-> <<>>, blk |-> <<>>, sb |-> 0]
Over(op, ret, updateMetadata, issued) ==
    [op |-> op, ret |-> ret, updateMetadata |-> updateMetadata,
     block |-> 0, data |-> emptyBlock, issued |-> issued, todo |-> <<>>, after |-> NoAfter]

\* The volume as a re-open would show it, and the device, when the call began.
Before(op, block, data) ==
    [valid |-> TRUE, op |-> op, vol |-> vc.volume, sid |-> vc.dc.volumes[vc.volume].SnapshotId, block |-> block, data |-> data,
     view |-> ViewAt(GetDeviceContext, extents, blocks, volumes[vc.volume].VolumeSize, vc.dc.volumes[vc.volume].SnapshotId),
     alloc |-> superblock.AllocatedDeviceExtents, ext |-> extents, blk |-> blocks]

\* WriteBlock(data, block, true) enters and computes what it will write.
BeginWrite(data, block) ==
    /\ vc.open /\ ~InProgress
    /\ block \in 0 .. (vc.vem.totalVolumeExtents * BlocksPerExtent - 1)
    /\ NeedsSlot(vc, block, TRUE) => vc.dc.superblock.AllocatedDeviceExtents < totalDeviceExtents + 1
    /\ LET r == WriteBlockOn(vc, World(vc), superblock.AllocatedDeviceExtents, data, block, TRUE)
       IN last' = Running("WriteBlock", block, data, WriteBlockWrites(vc, data, block),
                          [em |-> r.w.em, alloc |-> r.w.alloc, ext |-> r.w.ext, blk |-> r.w.blk, sb |-> r.sb])
    /\ snap' = Before("WriteBlock", block, data)
    /\ UNCHANGED <<disk, vc>>

\* UnmapBlock(block) enters and computes what it will write.
BeginUnmap(block) ==
    /\ vc.open /\ ~InProgress
    /\ block \in 0 .. (vc.vem.totalVolumeExtents * BlocksPerExtent - 1)
    /\ LET r == UnmapBlockOn(vc, World(vc), block)
       IN /\ last' = IF UnmapBlockWrites(vc, block) = <<>>
                      THEN Over("UnmapBlock", "ok", FALSE, <<>>)
                      ELSE Running("UnmapBlock", block, emptyBlock, UnmapBlockWrites(vc, block),
                                   [em |-> r.w.em, alloc |-> r.w.alloc, ext |-> r.w.ext, blk |-> r.w.blk,
                                    sb |-> superblock.AllocatedDeviceExtents])
          /\ snap' = IF UnmapBlockWrites(vc, block) = <<>> THEN NoSnap ELSE Before("UnmapBlock", block, emptyBlock)
    /\ vc' = vc
    /\ UNCHANGED disk

\* The call in progress issues its next persistent write; after the last one it
\* returns, leaving the context as the call leaves it.
IssueWrite ==
    /\ InProgress
    /\ LET wr == Head(last.todo)
           rest == Tail(last.todo)
       IN /\ superblock' = IF wr.kind = "superblock" THEN [AllocatedDeviceExtents |-> wr.alloc]
                           ELSE superblock
          /\ extents' = IF wr.kind = "extent" THEN DcWriteExtent(extents, wr.e, wr.slot) ELSE extents
          /\ blocks' = IF wr.kind = "copy" THEN CopyExtentData(blocks, wr.src, wr.slot)
                       ELSE IF wr.kind = "data" THEN WriteBlockData(blocks, wr.slot, wr.bidx, wr.data)
                       ELSE blocks
          /\ last' = IF rest = <<>>
                      THEN Over(last.op, "ok", last.updateMetadata, Append(last.issued, wr.kind))
                      ELSE [last EXCEPT !.issued = Append(@, wr.kind), !.todo = rest]
          /\ vc' = IF rest = <<>>
                   THEN [vc EXCEPT !.vem = last.after.em,
                                   !.dc.superblock.AllocatedDeviceExtents = last.after.alloc]
                   ELSE vc
          /\ snap' = IF rest = <<>> THEN NoSnap ELSE snap
    /\ UNCHANGED <<volumes, snapshots>>

\* The process stops: the context is lost, the device stays as written so far.
Crash ==
    /\ InProgress
    /\ vc' = NoContext
    /\ last' = Over("Crash", "interrupted", last.updateMetadata, last.issued)
    /\ UNCHANGED <<disk, snap>>

\* No block API call is in progress and none has been interrupted.
Settled == ~snap.valid

\* One volume with snapshots, written and unmapped one persistent write at a
\* time; the process may stop inside a call, after which the volume is re-opened.
NextCrash ==
    \/ Settled /\ \E sz \in VolumeSizes : CreateVolume(<<1>>, sz)
    \/ Settled /\ CreateSnapshot(<<1>>) /\ snap' = NoSnap
    \/ ~InProgress /\ OpenVolume(<<1>>)
    \/ ~InProgress /\ CloseVolume
    \/ \E d \in 1 .. MaxData, b \in InRangeBlocks : Settled /\ BeginWrite(d, b)
    \/ \E b \in InRangeBlocks : Settled /\ BeginUnmap(b)
    \/ IssueWrite
    \/ Crash

SpecCrash == Init /\ [][NextCrash]_vars

TypeOK ==
    /\ superblock.AllocatedDeviceExtents \in 0 .. SlotLimit
    /\ \A i \in Slots : extents[i].SnapshotId \in 0 .. MaxSnapshots

\* ================================================================ claims
\* The blocks of the volume the context c has open.
VolumeBlocks(c) == 0 .. (c.vem.totalVolumeExtents * BlocksPerExtent - 1)

\* The record the open context holds for the extent of block b.
ExtentOf(c, b) == c.vem.extents[b \div BlocksPerExtent]

\* The tip snapshot of the volume the context c has open.
TipOf(c) == c.dc.volumes[c.volume].SnapshotId

\* What the open context reads at block b, before and after the step.
ReadNow(b) == ReadBlock(vc, blocks, b, emptyBlock)
ReadNext(b) == ReadBlock(vc', blocks', b, emptyBlock)

\* ------------------------------------------------------------------- C1
\* C1. After WriteBlock(b, X, update_metadata = true) succeeds on a block of the
\* volume, ReadBlock(b) on the same context returns X, whoever owned the extent
\* before (nobody, the tip, an ancestor); and what ReadBlock(b) returns changes
\* afterwards only in a step that writes or unmaps b.
C1_WriteThenRead ==
    [][ /\ \A d \in 1 .. MaxData, b \in InRangeBlocks :
              (vc.open /\ last'.op = "WriteBlock" /\ last'.ret = "ok"
                  /\ b \in VolumeBlocks(vc) /\ WriteBlock(d, b, TRUE))
                  => ReadNext(b) = [ret |-> "ok", data |-> d]
        /\ \A b \in InRangeBlocks :
              (vc.open /\ vc'.open /\ b \in VolumeBlocks(vc) /\ ReadNext(b) # ReadNow(b))
                  => \/ \E d \in 1 .. MaxData, u \in BOOLEAN : WriteBlock(d, b, u)
                     \/ UnmapBlock(b)
      ]_vars

\* A write with update_metadata has just succeeded on an extent copied from an
\* ancestor: the tip's copy sits in a later slot than the ancestor's record of the
\* same extent, and the block reads back non-zero.
C1_Witness ==
    /\ vc.open
    /\ last.op = "WriteBlock" /\ last.ret = "ok" /\ last.updateMetadata
    /\ \E b \in VolumeBlocks(vc) :
          /\ ExtentOf(vc, b).SnapshotId = TipOf(vc)
          /\ ReadNow(b).data # emptyBlock
          /\ \E i \in Slots :
                /\ i < ExtentOf(vc, b).ExtentPos
                /\ extents[i].SnapshotId \notin {0, TipOf(vc)}
                /\ extents[i].ExtentPos = b \div BlocksPerExtent

\* The tables on the device after the step.
DcNext == [superblock |-> superblock', volumes |-> volumes', snapshots |-> snapshots']

\* What snapshot sid of volume v shows, before and after the step.
ViewNow(v, sid) == ViewAt(GetDeviceContext, extents, blocks, volumes[v].VolumeSize, sid)
ViewNext(v, sid) == ViewAt(DcNext, extents', blocks', volumes'[v].VolumeSize, sid)

\* ------------------------------------------------------------------- C2
\* C2. A volume cloned from a snapshot reads, at every block, what the source
\* volume showed when that snapshot was taken, whatever was written to the source
\* volume since.
C2_CloneReadsSnapshot ==
    [][ \A n \in VolumeNames, sid \in SnapshotIds :
            (snap.valid /\ snap.sid = sid /\ CloneSnapshot(n, sid) /\ last'.ret = "ok")
                => LET vnew == FirstFreeVolume(GetDeviceContext)
                   IN ViewNext(vnew, volumes'[vnew].SnapshotId) = snap.view
      ]_vars

\* ------------------------------------------------------------------- C3
\* C3. A successful DeleteSnapshot of a snapshot that is not a tip leaves every
\* block of the volume reading the same from the child of the deleted snapshot
\* and from the tip, extents owned only by the deleted snapshot included.
C3_DeletePreservesViews ==
    [][ \A sid \in SnapshotIds :
            (DeleteSnapshot(sid) /\ last'.ret = "ok")
                => LET v == FindVolumeWithSnapshot(GetDeviceContext, sid)
                       child == FindChildSnapshot(GetDeviceContext, sid)
                   IN /\ ViewNext(v, child) = ViewNow(v, child)
                      /\ ViewNext(v, volumes[v].SnapshotId) = ViewNow(v, volumes[v].SnapshotId)
      ]_vars

\* The block's extent is unallocated in the open context's map, or the block's bit
\* is clear in it.
Unwritten(c, b) ==
    ExtentOf(c, b).SnapshotId = 0 \/ (b % BlocksPerExtent) \notin ExtentOf(c, b).BlockBitmap

\* ------------------------------------------------------------------- C4
\* C4. ReadBlock of a block whose extent is unallocated, or whose bit in the
\* extent's bitmap is clear, succeeds and fills the caller's buffer with zeros,
\* whatever the buffer held and whatever the device slot holds at that place.
C4_UnwrittenReadsZero ==
    [][ \A b \in InRangeBlocks :
            (vc.open /\ last'.op = "ReadBlock" /\ b \in VolumeBlocks(vc) /\ Unwritten(vc, b) /\ ReadBlockCall(b))
                => /\ last'.ret = "ok"
                   /\ \A buf \in Data : ReadBlock(vc, blocks, b, buf) = [ret |-> "ok", data |-> emptyBlock]
      ]_vars

\* A read has just succeeded on a volume that has a block with its bit clear next
\* to a written block of the same extent, the device slot holding non-zero bytes
\* at the place of the clear block.
C4_Witness ==
    /\ vc.open
    /\ last.op = "ReadBlock" /\ last.ret = "ok"
    /\ \E b \in VolumeBlocks(vc), b2 \in VolumeBlocks(vc) :
          /\ b2 \div BlocksPerExtent = b \div BlocksPerExtent
          /\ ExtentOf(vc, b).SnapshotId # 0
          /\ Unwritten(vc, b) /\ ~Unwritten(vc, b2)
          /\ blocks[ExtentOf(vc, b).ExtentPos][b % BlocksPerExtent] # emptyBlock
          /\ ReadNow(b2).data # emptyBlock

\* ------------------------------------------------------------------- C5
\* C5. UnmapBlock(b) on a block of the open volume returns success; afterwards b
\* reads zeros and every other block of the volume reads what it read before;
\* when b was unwritten nothing changes, in memory or on the device; and the
\* extent's owner becomes 0 only when its bitmap has become empty.
C5_UnmapPostcondition ==
    [][ \A b \in InRangeBlocks :
            (vc.open /\ last'.op = "UnmapBlock" /\ b \in VolumeBlocks(vc) /\ UnmapBlock(b))
                => /\ last'.ret = "ok"
                   /\ ReadNext(b) = [ret |-> "ok", data |-> emptyBlock]
                   /\ \A b2 \in VolumeBlocks(vc) \ {b} : ReadNext(b2) = ReadNow(b2)
                   /\ Unwritten(vc, b) => (vc' = vc /\ UNCHANGED disk)
                   /\ (ExtentOf(vc, b).SnapshotId # 0 /\ ExtentOf(vc', b).SnapshotId = 0)
                          => ExtentOf(vc', b).BlockBitmap = {}
                   /\ \A i \in Slots :
                          (extents[i].SnapshotId # 0 /\ extents'[i].SnapshotId = 0)
                              => extents'[i].BlockBitmap = {}
      ]_vars

\* An unmap has just succeeded and left an extent allocated with one block still
\* written and another one cleared, the cleared one's bytes still in the slot.
C5_Witness ==
    /\ vc.open
    /\ last.op = "UnmapBlock" /\ last.ret = "ok"
    /\ \E b \in VolumeBlocks(vc), b2 \in VolumeBlocks(vc) :
          /\ b2 \div BlocksPerExtent = b \div BlocksPerExtent
          /\ ExtentOf(vc, b).SnapshotId = TipOf(vc)
          /\ Unwritten(vc, b) /\ ~Unwritten(vc, b2)
          /\ blocks[ExtentOf(vc, b).ExtentPos][b % BlocksPerExtent] # emptyBlock
          /\ extents[ExtentOf(vc, b).ExtentPos].BlockBitmap = {b2 % BlocksPerExtent}

\* ------------------------------------------------------------------- C6
\* C6 (as the code has it). WriteBlock(b, data, update_metadata = false) on a block
\* of the open volume returns MetadataNeedsUpdate exactly when the extent is not
\* owned by the tip (unallocated included) or the block's bit is not yet set in
\* the extent's bitmap; in every other case it writes the block and succeeds.
C6_FastPathRefusal ==
    [][ \A d \in 1 .. MaxData, b \in InRangeBlocks :
            (vc.open /\ last'.op = "WriteBlock" /\ b \in VolumeBlocks(vc) /\ WriteBlock(d, b, FALSE))
                => IF ExtentOf(vc, b).SnapshotId # TipOf(vc) \/ Unwritten(vc, b)
                   THEN last'.ret = "MetadataNeedsUpdate"
                   ELSE last'.ret = "ok" /\ ReadNext(b) = [ret |-> "ok", data |-> d]
      ]_vars

\* C6 (as the specification has it). WriteBlock(b, data, update_metadata = false)
\* returns MetadataNeedsUpdate exactly when the extent's owner differs from the
\* tip or the extent is unallocated, and otherwise writes and succeeds.
C6_RefusalByOwnerOnly ==
    [][ \A d \in 1 .. MaxData, b \in InRangeBlocks :
            (vc.open /\ last'.op = "WriteBlock" /\ b \in VolumeBlocks(vc) /\ WriteBlock(d, b, FALSE))
                => IF ExtentOf(vc, b).SnapshotId # TipOf(vc)
                   THEN last'.ret = "MetadataNeedsUpdate"
                   ELSE last'.ret = "ok" /\ ReadNext(b) = [ret |-> "ok", data |-> d]
      ]_vars

\* A write has just returned MetadataNeedsUpdate on a volume whose extents are all
\* owned by the tip: the refusal came from a block whose bit is clear.
C6_Witness ==
    /\ vc.open
    /\ last.op = "WriteBlock" /\ last.ret = "MetadataNeedsUpdate"
    /\ \A b \in VolumeBlocks(vc) : ExtentOf(vc, b).SnapshotId = TipOf(vc)
    /\ \E b \in VolumeBlocks(vc) : Unwritten(vc, b)

\* ------------------------------------------------------------------- C7
\* C7. WriteBlock(b, data, update_metadata = false) on a block of the open volume
\* changes neither the in-memory extent map, nor the allocation counter in memory
\* or in the superblock, nor any on-disk extent record, nor the tables; when it
\* succeeds the only data that changed is the target block in its extent's slot,
\* and when it returns MetadataNeedsUpdate no data changed.
C7_FastPathFrame ==
    [][ \A d \in 1 .. MaxData, b \in InRangeBlocks :
            (vc.open /\ last'.op = "WriteBlock" /\ b \in VolumeBlocks(vc) /\ WriteBlock(d, b, FALSE))
                => /\ vc' = vc
                   /\ UNCHANGED <<superblock, volumes, snapshots, extents>>
                   /\ last'.ret \in {"ok", "MetadataNeedsUpdate"}
                   /\ last'.ret = "MetadataNeedsUpdate" => blocks' = blocks
                   /\ last'.ret = "ok" =>
                          \A i \in Slots, j \in BlockIdx :
                              blocks'[i][j] # blocks[i][j]
                                  => i = ExtentOf(vc, b).ExtentPos /\ j = b % BlocksPerExtent
      ]_vars

\* A write without update_metadata has just succeeded on a volume that has an
\* ancestor snapshot, the written extent being the tip's copy.
C7_Witness ==
    /\ vc.open
    /\ last.op = "WriteBlock" /\ last.ret = "ok" /\ ~last.updateMetadata
    /\ snapshots[TipOf(vc)].ParentSnapshotId # 0
    /\ \E b \in VolumeBlocks(vc) :
          /\ ExtentOf(vc, b).SnapshotId = TipOf(vc)
          /\ ReadNow(b).data = MaxData

\* ------------------------------------------------------------------- C8
\* C8. ReadBlock, WriteBlock and UnmapBlock answer OutOfRange for every block
\* whose extent index is at or past the number of extents of the volume, and
\* change nothing.
C8_OutOfRangeRejected ==
    [][ \A b \in BlockInputs :
            (/\ vc.open
             /\ b \div BlocksPerExtent >= vc.vem.totalVolumeExtents
             /\ \/ ReadBlockCall(b)
                \/ \E d \in 1 .. MaxData, u \in BOOLEAN : WriteBlock(d, b, u)
                \/ UnmapBlock(b))
                => last'.ret = "OutOfRange" /\ vc' = vc /\ UNCHANGED disk
      ]_vars

\* ------------------------------------------------------------------- C9
\* C9. The allocation counter, on the device and in the open context, never
\* exceeds the number of data extents of the device.
C9_AllocatedWithinDevice ==
    /\ superblock.AllocatedDeviceExtents <= TotalDeviceExtents
    /\ vc.open => vc.dc.superblock.AllocatedDeviceExtents <= TotalDeviceExtents

\* ------------------------------------------------------------------ C10
\* C10. The persisted allocation counter never decreases in any step, and a slot
\* below the counter whose record is free stays free.
C10_AllocatedMonotone ==
    [][ /\ superblock'.AllocatedDeviceExtents >= superblock.AllocatedDeviceExtents
        /\ \A i \in Slots :
              (i < superblock.AllocatedDeviceExtents /\ extents[i].SnapshotId = 0)
                  => extents'[i].SnapshotId = 0
      ]_vars

\* A write or a clone has just allocated the last slot below the counter while an
\* earlier slot lies released.
C10_Witness ==
    /\ last.op \in {"WriteBlock", "CloneSnapshot"} /\ last.ret = "ok"
    /\ superblock.AllocatedDeviceExtents >= 2
    /\ extents[superblock.AllocatedDeviceExtents - 1].SnapshotId # 0
    /\ \E i \in Slots :
          /\ i < superblock.AllocatedDeviceExtents - 1
          /\ extents[i].SnapshotId = 0

\* ------------------------------------------------------------------ C11
\* A snapshot slot is in use when its creation stamp is set; a volume slot when
\* its tip is set.
InUseSnapshot(sid) == sid \in SnapshotIds /\ snapshots[sid].CreatedAt # 0
InUseVolume(i) == volumes[i].SnapshotId # 0

\* The identifiers of the chain of volume slot i, tip first.
ChainIds(i) ==
    LET c == SnapshotChain(GetDeviceContext, volumes[i].SnapshotId)
    IN [k \in 1 .. Len(c) |-> c[k].SnapshotId]

\* C11. In every state: the tip of every in-use volume is an in-use snapshot, every
\* non-zero parent of an in-use snapshot is an in-use snapshot, and the parent
\* walk from every tip ends at 0 without visiting a snapshot twice.
C11_ChainsWellFormed ==
    /\ \A i \in VolumeIdx : InUseVolume(i) => InUseSnapshot(volumes[i].SnapshotId)
    /\ \A s \in SnapshotIds :
          (InUseSnapshot(s) /\ snapshots[s].ParentSnapshotId # 0)
              => InUseSnapshot(snapshots[s].ParentSnapshotId)
    /\ \A i \in VolumeIdx :
          InUseVolume(i) =>
              /\ Len(ChainIds(i)) <= MaxSnapshots
              /\ \A j, k \in 1 .. Len(ChainIds(i)) : j # k => ChainIds(i)[j] # ChainIds(i)[k]

\* A volume has just been deleted, its freed snapshot slot still holding a parent
\* identifier, while another volume is in use.
C11_Witness ==
    /\ last.op = "DeleteVolume" /\ last.ret = "ok"
    /\ \E s \in SnapshotIds : ~InUseSnapshot(s) /\ snapshots[s].ParentSnapshotId # 0
    /\ \E i \in VolumeIdx : InUseVolume(i)

\* ------------------------------------------------------------------ C12
\* C12. In every state, every extent record in a slot below the allocation counter
\* that carries a snapshot identifier carries the identifier of an in-use snapshot.
C12_RecordsNameLiveSnapshots ==
    \A i \in Slots :
        (i < superblock.AllocatedDeviceExtents /\ extents[i].SnapshotId # 0)
            => InUseSnapshot(extents[i].SnapshotId)

\* ------------------------------------------------------------------ C13
\* The in-use volumes whose chain holds snapshot s, and the in-use snapshots
\* whose parent is s.
VolumesHolding(s) ==
    {i \in VolumeIdx : InUseVolume(i) /\ \E k \in 1 .. Len(ChainIds(i)) : ChainIds(i)[k] = s}
ChildrenOf(s) == {c \in SnapshotIds : InUseSnapshot(c) /\ snapshots[c].ParentSnapshotId = s}

\* C13. In every state each in-use snapshot lies on the chain of exactly one in-use
\* volume and has at most one in-use child.
C13_ChainsLinearDisjoint ==
    \A s \in SnapshotIds :
        InUseSnapshot(s) =>
            /\ Cardinality(VolumesHolding(s)) = 1
            /\ Cardinality(ChildrenOf(s)) <= 1

\* A snapshot of a chain of two has just been cloned: two volumes are in use, one
\* of them with an ancestor snapshot.
C13_Witness ==
    /\ last.op = "CloneSnapshot" /\ last.ret = "ok"
    /\ \A i \in VolumeIdx : InUseVolume(i)
    /\ \E i \in VolumeIdx : Len(ChainIds(i)) >= 2

\* ------------------------------------------------------------------ C14
\* C14. In every state no two in-use volume slots hold the same name.
C14_NamesUnique ==
    \A i, j \in VolumeIdx :
        (i # j /\ InUseVolume(i) /\ InUseVolume(j))
            => volumes[i].VolumeName # volumes[j].VolumeName

\* ------------------------------------------------------------------ C15
\* The volume map at snapshot sid of its volume, and the number of extents a map
\* shows allocated.
MapAt(sid) ==
    GetVolumeExtentMap(GetDeviceContext, extents,
                       volumes[FindVolumeWithSnapshot(GetDeviceContext, sid)].VolumeSize, sid)
LiveCount(m) == Cardinality({x \in DOMAIN m.extents : m.extents[x].SnapshotId # 0})

\* C15. CloneSnapshot of a snapshot of some volume, when the allocation counter
\* plus the number of extents visible at that snapshot exceeds the number of data
\* extents of the device, fails with NoSpace and leaves superblock, tables, extent
\* records and data as they were.
C15_CloneNoSpace ==
    [][ (last'.op = "CloneSnapshot" /\ ~vc.open) =>
          \A sid \in SnapshotIds :
              FindVolumeWithSnapshot(GetDeviceContext, sid) # -1 =>
                  LET m == MapAt(sid) IN
                  (/\ ~m.panic
                   /\ superblock.AllocatedDeviceExtents + LiveCount(m) > TotalDeviceExtents)
                      => \A n \in VolumeNames :
                             CloneSnapshot(n, sid) => (last'.ret = "NoSpace" /\ UNCHANGED disk)
      ]_vars

\* A clone has just been refused for space on a device that is exactly full, a
\* volume slot still being free.
C15_Witness ==
    /\ last.op = "CloneSnapshot" /\ last.ret = "NoSpace"
    /\ superblock.AllocatedDeviceExtents = TotalDeviceExtents
    /\ \E i \in VolumeIdx : ~InUseVolume(i)

\* ------------------------------------------------------------------ C16
\* C16. After CloneSnapshot(new_name, s) succeeds, the new volume has the size of
\* the source volume, a tip that is a root snapshot not in use before, and reads
\* at every block what snapshot s showed in the source chain before the call.
C16_CloneEqualsSource ==
    [][ (last'.op = "CloneSnapshot" /\ last'.ret = "ok" /\ ~vc.open) =>
          \A n \in VolumeNames, sid \in SnapshotIds :
              CloneSnapshot(n, sid) =>
                  LET vsrc == FindVolumeWithSnapshot(GetDeviceContext, sid)
                      vnew == FirstFreeVolume(GetDeviceContext)
                      root == volumes'[vnew].SnapshotId
                  IN /\ volumes'[vnew].VolumeSize = volumes[vsrc].VolumeSize
                     /\ ~InUseSnapshot(root)
                     /\ snapshots'[root].CreatedAt # 0
                     /\ snapshots'[root].ParentSnapshotId = 0
                     /\ ViewNext(vnew, root) = ViewNow(vsrc, sid)
      ]_vars

\* ------------------------------------------------------------------ C17
\* C17. DeleteSnapshot of a snapshot that is the current tip of an in-use volume
\* fails with the cannot-delete-current error, and the superblock, the volume
\* table, the snapshot table (hence every chain), the extent records and the
\* data are unchanged.
C17_TipDeleteRefused ==
    [][ (last'.op = "DeleteSnapshot" /\ ~vc.open) =>
          \A sid \in SnapshotIds :
              (DeleteSnapshot(sid) /\ \E i \in VolumeIdx : InUseVolume(i) /\ volumes[i].SnapshotId = sid) =>
                  /\ last'.ret = "CannotDeleteCurrent"
                  /\ UNCHANGED disk
                  /\ \A i \in VolumeIdx :
                        SnapshotChain(DcNext, volumes'[i].SnapshotId)
                            = SnapshotChain(GetDeviceContext, volumes[i].SnapshotId) ]_vars

\* A refused tip deletion on a volume whose chain has an older snapshot behind the tip.
C17_Witness ==
    /\ last.op = "DeleteSnapshot" /\ last.ret = "CannotDeleteCurrent"
    /\ \E i \in VolumeIdx : InUseVolume(i) /\ Len(ChainIds(i)) >= 2

\* ------------------------------------------------------------------ C18
\* The chain GetSnapshotInfo reports for a sequence of identifiers linked in order.
LinkedChain(ids) ==
    [k \in 1 .. Len(ids) |->
        [SnapshotId |-> ids[k],
         ParentSnapshotId |-> IF k < Len(ids) THEN ids[k + 1] ELSE 0]]

Without(ids, sid) == SelectSeq(ids, LAMBDA x : x # sid)

OnChainBelowTip(i, sid) ==
    /\ InUseVolume(i)
    /\ volumes[i].SnapshotId # sid
    /\ \E k \in 1 .. Len(ChainIds(i)) : ChainIds(i)[k] = sid

\* C18. DeleteSnapshot of a snapshot that lies on the chain of an in-use volume
\* and is not its tip (the root included) succeeds; the victim's slot becomes
\* free, its child's parent becomes the victim's parent, no other snapshot slot
\* and no volume slot changes, and every chain is the old chain without the
\* victim, in the same order, ending at parent 0 (so a chain reduced to its tip
\* is the tip alone with parent 0).
C18_NonTipDeleteUnlinks ==
    [][ (last'.op = "DeleteSnapshot" /\ ~vc.open) =>
          \A sid \in SnapshotIds :
              (DeleteSnapshot(sid) /\ \E i \in VolumeIdx : OnChainBelowTip(i, sid)) =>
                  /\ last'.ret = "ok"
                  /\ volumes' = volumes
                  /\ snapshots'[sid].CreatedAt = 0
                  /\ \A c \in SnapshotIds \ {sid} :
                        IF c \in ChildrenOf(sid)
                        THEN snapshots'[c] = [snapshots[c] EXCEPT
                                 !.ParentSnapshotId = snapshots[sid].ParentSnapshotId]
                        ELSE snapshots'[c] = snapshots[c]
                  /\ \A i \in VolumeIdx : InUseVolume(i) =>
                        SnapshotChain(DcNext, volumes'[i].SnapshotId)
                            = LinkedChain(Without(ChainIds(i), sid)) ]_vars

\* ------------------------------------------------------------------ C19
\* C19. When CreateSnapshot(name) succeeds on the volume FindVolume gives for the
\* name: exactly one snapshot slot changes, it was free, its parent is the
\* previous tip and it is the volume's new tip; the chain GetSnapshotInfo walks
\* is the new snapshot followed by the previous chain unchanged (one longer, the
\* last entry with parent 0); every other volume slot and its chain are as before.
C19_SnapshotPrepended ==
    [][ (last'.op = "CreateSnapshot" /\ last'.ret = "ok" /\ ~vc.open) =>
          \A n \in VolumeNames : CreateSnapshot(n) =>
              LET dc == GetDeviceContext
                  v == FindVolume(dc, n)
                  old == volumes[v].SnapshotId
                  new == volumes'[v].SnapshotId
                  before == SnapshotChain(dc, old)
                  after == SnapshotChain(DcNext, new)
              IN /\ new \in SnapshotIds /\ ~InUseSnapshot(new)
                 /\ snapshots'[new].CreatedAt # 0
                 /\ snapshots'[new].ParentSnapshotId = old
                 /\ \A s \in SnapshotIds \ {new} : snapshots'[s] = snapshots[s]
                 /\ volumes' = [volumes EXCEPT ![v].SnapshotId = new]
                 /\ after = <<[SnapshotId |-> new, ParentSnapshotId |-> old]>> \o before
                 /\ Len(after) = Len(before) + 1
                 /\ after[Len(after)].ParentSnapshotId = 0
                 /\ \A i \in VolumeIdx \ {v} :
                       SnapshotChain(DcNext, volumes'[i].SnapshotId)
                           = SnapshotChain(dc, volumes[i].SnapshotId) ]_vars

\* A snapshot has just been added to one volume while another volume is in use.
C19_Witness ==
    /\ last.op = "CreateSnapshot" /\ last.ret = "ok"
    /\ \E i, j \in VolumeIdx :
          /\ i # j /\ InUseVolume(i) /\ InUseVolume(j)
          /\ Len(ChainIds(i)) = 2 /\ Len(ChainIds(j)) = 1

\* ------------------------------------------------------------------ C20
FreeVolumeSlots == {i \in VolumeIdx : ~InUseVolume(i)}
LowestFreeSlot == CHOOSE i \in FreeVolumeSlots : \A j \in FreeVolumeSlots : i <= j

\* C20. When CreateVolume or CloneSnapshot succeeds, the new volume is in the
\* lowest-index volume slot that was free and no other volume slot changes; the
\* list GetVolumeInfo returns, which follows slot order, is the previous list
\* with the new volume inserted at the place of that slot, so a volume created
\* into the gap a deletion left appears where the deleted one was and the
\* volumes after it keep their places.
C20_LowestFreeSlot ==
    [][ ((last'.op = "CreateVolume" \/ last'.op = "CloneSnapshot") /\ last'.ret = "ok" /\ ~vc.open) =>
          LET k == LowestFreeSlot
              old == GetVolumeInfo(GetDeviceContext)
              new == GetVolumeInfo(DcNext)
          IN /\ FreeVolumeSlots # {}
             /\ volumes'[k].SnapshotId # 0
             /\ \A i \in VolumeIdx \ {k} : volumes'[i] = volumes[i]
             /\ Len(new) = Len(old) + 1
             /\ new[k + 1] = [VolumeName |-> volumes'[k].VolumeName,
                              VolumeSize |-> volumes'[k].VolumeSize,
                              SnapshotId |-> volumes'[k].SnapshotId]
             /\ \A p \in 1 .. Len(old) : new[IF p <= k THEN p ELSE p + 1] = old[p] ]_vars

\* A volume has just been created into a gap below a volume that already had a
\* snapshot: the new volume (chain of one) is in slot 0, the older one after it.
C20_Witness ==
    /\ (last.op = "CreateVolume" \/ last.op = "CloneSnapshot") /\ last.ret = "ok"
    /\ InUseVolume(0) /\ Len(ChainIds(0)) = 1
    /\ \E i \in VolumeIdx \ {0} : InUseVolume(i) /\ Len(ChainIds(i)) = 2

\* ------------------------------------------------------------------ C21
NameExists(n) == \E i \in VolumeIdx : InUseVolume(i) /\ volumes[i].VolumeName = nameArray(n)

\* What validation makes of CreateVolume(n, sz), from the tables alone.
CreateVolumeVerdict(n, sz) ==
    IF sz < EXTENT_SIZE THEN "ZeroSize"
    ELSE IF NameExists(n) THEN "VolumeExists"
    ELSE IF FreeVolumeSlots = {} THEN "OutOfVolumeSlots"
    ELSE IF \A s \in SnapshotIds : InUseSnapshot(s) THEN "OutOfSnapshotSlots"
    ELSE "ok"

\* C21. A management call that fails validation returns its error and leaves
\* superblock, volume table, snapshot table, extent records and data as they
\* were: CreateVolume with a size below one extent, an existing name, a full
\* volume table or a full snapshot table; RenameVolume, DeleteVolume and
\* CreateSnapshot on a name no in-use volume has; CloneSnapshot and
\* DeleteSnapshot on an identifier no in-use snapshot has.
C21_FailedValidationFrame ==
    [][ ~vc.open =>
          /\ last'.op = "CreateVolume" =>
                \A n \in VolumeNames, sz \in VolumeSizes : CreateVolume(n, sz) =>
                    /\ last'.ret = CreateVolumeVerdict(n, sz)
                    /\ CreateVolumeVerdict(n, sz) # "ok" => UNCHANGED disk
          /\ last'.op = "RenameVolume" =>
                \A n \in VolumeNames, n2 \in VolumeNames : (RenameVolume(n, n2) /\ ~NameExists(n)) =>
                    last'.ret = "VolumeNotFound" /\ UNCHANGED disk
          /\ last'.op = "DeleteVolume" =>
                \A n \in VolumeNames : (DeleteVolume(n) /\ ~NameExists(n)) =>
                    last'.ret = "VolumeNotFound" /\ UNCHANGED disk
          /\ last'.op = "CreateSnapshot" =>
                \A n \in VolumeNames : (CreateSnapshot(n) /\ ~NameExists(n)) =>
                    last'.ret = "VolumeNotFound" /\ UNCHANGED disk
          /\ last'.op = "CloneSnapshot" =>
                \A n \in VolumeNames, sid \in 0 .. MaxSnapshots :
                    (CloneSnapshot(n, sid) /\ ~InUseSnapshot(sid)) =>
                        last'.ret = "SnapshotNotFound" /\ UNCHANGED disk
          /\ last'.op = "DeleteSnapshot" =>
                \A sid \in 0 .. MaxSnapshots : (DeleteSnapshot(sid) /\ ~InUseSnapshot(sid)) =>
                    last'.ret = "SnapshotNotFound" /\ UNCHANGED disk ]_vars

\* CreateVolume has just been refused for an existing name while extents are
\* allocated and a volume slot is free.
C21_Witness ==
    /\ last.op = "CreateVolume" /\ last.ret = "VolumeExists"
    /\ superblock.AllocatedDeviceExtents > 0
    /\ FreeVolumeSlots # {}

\* ------------------------------------------------------------------ C22
ChainSet(i) == {ChainIds(i)[k] : k \in 1 .. Len(ChainIds(i))}

\* The list GetVolumeInfo returns once slot v is left out.
InfoWithout(v) ==
    GetVolumeInfo([GetDeviceContext EXCEPT !.volumes[v] = ZeroVolumeMetadata])

\* C22. DeleteVolume(name) on an existing volume succeeds and frees exactly its
\* chain: the volume slot becomes free and no other volume slot changes, every
\* snapshot from its tip to its root becomes free and no other snapshot slot
\* changes, every extent record that was tagged with one of those snapshots is
\* an all-zero record afterwards and no other record changes, and
\* GetVolumeInfo lists the other volumes as before, without the deleted one.
C22_DeleteVolumeFreesChain ==
    [][ (last'.op = "DeleteVolume" /\ ~vc.open) =>
          \A n \in VolumeNames : (DeleteVolume(n) /\ NameExists(n)) =>
              LET v == FindVolume(GetDeviceContext, n)
                  ids == ChainSet(v)
              IN /\ last'.ret = "ok"
                 /\ volumes'[v].SnapshotId = 0
                 /\ \A i \in VolumeIdx \ {v} : volumes'[i] = volumes[i]
                 /\ \A s \in SnapshotIds :
                       IF s \in ids THEN snapshots'[s].CreatedAt = 0
                       ELSE snapshots'[s] = snapshots[s]
                 /\ \A x \in Slots :
                       IF extents[x].SnapshotId \in ids THEN extents'[x] = ZeroExtentMetadata
                       ELSE extents'[x] = extents[x]
                 /\ GetVolumeInfo(DcNext) = InfoWithout(v) ]_vars

\* ------------------------------------------------------------------ C23
\* C23. Whenever NewDeviceContext accepts a device (size of 100 MiB or more), the
\* layout it computes fits: the extent-metadata table ends at or before the
\* data offset, and the data region of the last device slot ends at or before
\* the end of the device.
C23_LayoutFits ==
    (last.op = "NewDeviceContext" /\ last.dc.deviceSize >= MinDeviceSize) =>
        /\ last.ret = "ok"
        /\ last.dc.extentOffset + last.dc.totalDeviceExtents * SIZEOF_EXTENT_METADATA
               <= last.dc.dataOffset
        /\ last.dc.dataOffset + last.dc.totalDeviceExtents * EXTENT_SIZE
               <= last.dc.deviceSize

\* ------------------------------------------------------------------ C24
\* The kinds of persistent write of the call in progress, issued and to come.
AllKinds == last.issued \o [k \in 1 .. Len(last.todo) |-> last.todo[k].kind]

\* The extent record the call in progress found for its block.
TargetEntry == vc.vem.extents[last.block \div BlocksPerExtent]
Allocates == TargetEntry.SnapshotId # TipOf(vc)

IsSubSeq(s, t) ==
    LET RECURSIVE F(_, _)
        F(i, j) == IF i > Len(s) THEN TRUE
                   ELSE IF j > Len(t) THEN FALSE
                   ELSE IF s[i] = t[j] THEN F(i + 1, j + 1) ELSE F(i, j + 1)
    IN F(1, 1)

\* C24 as stated. A WriteBlock that takes a new device slot (first allocation or
\* copy-on-write) issues at most three persistent writes, in the order extent
\* record, superblock, data block; an UnmapBlock issues the extent-record write
\* and no data write.
C24_ThreeWritesInOrder ==
    InProgress =>
        /\ (last.op = "WriteBlock" /\ Allocates) =>
              IsSubSeq(AllKinds, <<"extent", "superblock", "data">>)
        /\ last.op = "UnmapBlock" => AllKinds = <<"extent">>

\* C24, amended. WriteBlock(update_metadata = true) issues, in this order: the copy
\* of the extent's data to the new slot when the extent belongs to an ancestor;
\* the extent record and then the superblock when the extent is not the tip's;
\* the data block; and the extent record again, with the block's bit set, when
\* the bit was not set.  UnmapBlock issues one extent-record write and no data
\* write.  When the last write has been issued the device is as the call leaves it.
C24_WritesInOrder ==
    [][ InProgress =>
          /\ last.op = "WriteBlock" =>
                AllKinds = (IF TargetEntry.SnapshotId \notin {0, TipOf(vc)} THEN <<"copy">> ELSE <<>>)
                           \o (IF Allocates THEN <<"extent", "superblock">> ELSE <<>>)
                           \o <<"data">>
                           \o (IF (last.block % BlocksPerExtent) \in TargetEntry.BlockBitmap
                               THEN <<>> ELSE <<"extent">>)
          /\ last.op = "UnmapBlock" => AllKinds = <<"extent">>
          /\ (IssueWrite /\ last'.ret = "ok") =>
                /\ extents' = last.after.ext
                /\ blocks' = last.after.blk
                /\ superblock'.AllocatedDeviceExtents = last.after.sb ]_vars

\* A copy-on-write of a block the ancestor had not written has just returned,
\* having issued five persistent writes.
C24_Witness ==
    /\ last.op = "WriteBlock" /\ last.ret = "ok"
    /\ last.issued = <<"copy", "extent", "superblock", "data", "extent">>

\* ------------------------------------------------------------------ C25
\* A WriteBlock was interrupted between two of its persistent writes (or before
\* the first, or before returning); the volume may have been re-opened since.
Interrupted == snap.valid /\ ~InProgress /\ snap.op = "WriteBlock"

\* What re-opening the volume shows now.
ReopenedView ==
    ViewAt(GetDeviceContext, extents, blocks, volumes[snap.vol].VolumeSize, volumes[snap.vol].SnapshotId)

ReadsSurvive ==
    \A b \in DOMAIN snap.view :
        IF b = snap.block THEN ReopenedView[b] \in {snap.view[b], snap.data}
        ELSE ReopenedView[b] = snap.view[b]

OwnMap(sid) ==
    GetSnapshotExtentMap(GetDeviceContext, extents,
                         volumes[FindVolumeWithSnapshot(GetDeviceContext, sid)].VolumeSize, sid)

\* The extents of the victim that its child does not shadow.
MergedExtents(sid) ==
    {v \in OwnMap(sid).extentBitmap :
        OwnMap(FindChildSnapshot(GetDeviceContext, sid)).extents[v].SnapshotId = 0}

\* C26. When DeleteSnapshot merges the victim into its child, for every extent v
\* present in the victim's map and absent from the child's, the record at the
\* device slot holding v's data becomes {child id, extent_pos v, bitmap
\* unchanged}; and no record of a slot the victim does not own is modified.
C26_MergeRewritesOwner ==
    [][ (last'.op = "DeleteSnapshot" /\ last'.ret = "ok" /\ ~vc.open) =>
          \A sid \in SnapshotIds :
              DeleteSnapshot(sid) =>
                  LET child == FindChildSnapshot(GetDeviceContext, sid)
                      sem == OwnMap(sid)
                  IN /\ \A v \in MergedExtents(sid) :
                            extents'[sem.extents[v].ExtentPos] =
                                [SnapshotId |-> child, ExtentPos |-> v,
                                 BlockBitmap |-> extents[sem.extents[v].ExtentPos].BlockBitmap]
                     /\ \A x \in Slots :
                            (x \notin {sem.extents[v].ExtentPos : v \in sem.extentBitmap})
                                => extents'[x] = extents[x] ]_vars

\* ------------------------------------------------------------------ C27
\* The in-memory entries the step persisted: owned by the tip of the open volume,
\* with the record at their device slot changed by the step.
PersistedEntries ==
    {v \in DOMAIN vc'.vem.extents :
        /\ vc'.vem.extents[v].SnapshotId # 0
        /\ extents'[vc'.vem.extents[v].ExtentPos] # extents[vc'.vem.extents[v].ExtentPos]}

\* The snapshot map rebuilt from what is on the device after the step.
Rebuilt(sid) ==
    GetSnapshotExtentMap(DcNext, extents', volumes'[vc'.volume].VolumeSize, sid)

\* C27. Whenever a block call persists a populated entry extents[v], the record
\* lies at device slot extents[v].extent_pos with extent_pos = v on disk, the
\* in-memory entry keeps the slot, and the snapshot map rebuilt from disk has at
\* index v the same owner, slot and bitmap.
C27_ExtentPosRoundTrip ==
    [][ (last'.op \in {"WriteBlock", "UnmapBlock"} /\ last'.ret = "ok" /\ extents' # extents) =>
          \A v \in PersistedEntries :
              LET e == vc'.vem.extents[v] IN
              /\ extents'[e.ExtentPos] = [e EXCEPT !.ExtentPos = v]
              /\ Rebuilt(e.SnapshotId).extents[v] = e ]_vars

\* ------------------------------------------------------------------ C28
\* The device slots whose record, within the device's extent table and below the
\* allocation counter, is tagged with snapshot sid for volume extent v.
RecordsOf(sid, v) ==
    {i \in Slots : /\ i < Min(TotalDeviceExtents, superblock.AllocatedDeviceExtents)
                   /\ extents[i].SnapshotId = sid
                   /\ extents[i].ExtentPos = v}

\* The nearest snapshot on the path s, parent(s), ..., root owning a record for
\* v; 0 if none does.
NearestOwner(s, v) ==
    LET path == SnapshotChain(GetDeviceContext, s)
        owning == {k \in 1 .. Len(path) : RecordsOf(path[k].SnapshotId, v) # {}}
    IN IF owning = {} THEN 0 ELSE path[Lowest(owning)].SnapshotId

\* C28. The volume extent map built for a snapshot s of a volume resolves every
\* volume extent v to the nearest snapshot on the path from s to the root that
\* owns a record for v, at a slot holding such a record, and leaves v
\* unallocated only if no snapshot on the path owns one.
C28_NearestAncestorWins ==
    \A s \in SnapshotIds :
        (InUseSnapshot(s) /\ FindVolumeWithSnapshot(GetDeviceContext, s) # -1 /\ ~MapAt(s).panic) =>
            \A v \in DOMAIN MapAt(s).extents :
                LET e == MapAt(s).extents[v] IN
                /\ e.SnapshotId = NearestOwner(s, v)
                /\ e.SnapshotId # 0 => e.ExtentPos \in RecordsOf(e.SnapshotId, v)
                /\ (v \in MapAt(s).extentBitmap) = (e.SnapshotId # 0)

\* A snapshot and its parent both own a record for the same extent, and the map
\* built for the snapshot takes the snapshot's own.
C28_Witness ==
    \E s \in SnapshotIds :
        /\ InUseSnapshot(s) /\ FindVolumeWithSnapshot(GetDeviceContext, s) # -1 /\ ~MapAt(s).panic
        /\ snapshots[s].ParentSnapshotId # 0
        /\ \E v \in DOMAIN MapAt(s).extents :
              /\ RecordsOf(s, v) # {}
              /\ RecordsOf(snapshots[s].ParentSnapshotId, v) # {}
              /\ MapAt(s).extents[v].SnapshotId = s

\* ------------------------------------------------------------------ C29
\* The extent of block b is owned, in the open volume's map, by an ancestor of
\* the tip.
AncestorOwned(b) ==
    /\ vc.open /\ b \in VolumeBlocks(vc)
    /\ vc.vem.extents[b \div BlocksPerExtent].SnapshotId \notin {0, TipOf(vc)}

\* C29. When WriteBlock(b, X, update_metadata = true) targets an extent owned by
\* an ancestor snapshot, afterwards every other block of that extent reads from
\* the volume what it read before, the extent is owned by the tip at a new device
\* slot, and the ancestor's record and data are unmodified.
C29_CowPreservesExtent ==
    [][ (last'.op = "WriteBlock" /\ last'.ret = "ok" /\ vc.open) =>
          \A d \in 1 .. MaxData, b \in InRangeBlocks :
              (AncestorOwned(b) /\ WriteBlock(d, b, TRUE)) =>
                  LET eidx == b \div BlocksPerExtent
                      old == vc.vem.extents[eidx]
                      new == vc'.vem.extents[eidx]
                  IN /\ \A o \in VolumeBlocks(vc) :
                            (o # b /\ o \div BlocksPerExtent = eidx) => ReadNext(o) = ReadNow(o)
                     /\ new.SnapshotId = TipOf(vc)
                     /\ new.ExtentPos = superblock.AllocatedDeviceExtents
                     /\ new.ExtentPos # old.ExtentPos
                     /\ extents'[new.ExtentPos].SnapshotId = TipOf(vc)
                     /\ extents'[new.ExtentPos].ExtentPos = eidx
                     /\ superblock'.AllocatedDeviceExtents = superblock.AllocatedDeviceExtents + 1
                     /\ extents'[old.ExtentPos] = extents[old.ExtentPos]
                     /\ blocks'[old.ExtentPos] = blocks[old.ExtentPos] ]_vars

\* A copy-on-write has just been done on an extent in which the ancestor had
\* written another block: that block reads its data, from the tip's new slot.
C29_Witness ==
    /\ last.op = "WriteBlock" /\ last.ret = "ok" /\ last.updateMetadata /\ vc.open
    /\ snapshots[TipOf(vc)].ParentSnapshotId # 0
    /\ \E v \in DOMAIN vc.vem.extents :
          /\ vc.vem.extents[v].SnapshotId = TipOf(vc)
          /\ vc.vem.extents[v].BlockBitmap = 0 .. (BlocksPerExtent - 1)
          /\ vc.vem.extents[v].ExtentPos = superblock.AllocatedDeviceExtents - 1
          /\ \E i \in Slots :
                /\ i < vc.vem.extents[v].ExtentPos
                /\ extents[i].SnapshotId = snapshots[TipOf(vc)].ParentSnapshotId
                /\ extents[i].ExtentPos = v
                /\ extents[i].BlockBitmap # {}
                /\ extents[i].BlockBitmap # vc.vem.extents[v].BlockBitmap
                /\ \E o \in extents[i].BlockBitmap :
                      /\ blocks[i][o] # emptyBlock
                      /\ blocks[vc.vem.extents[v].ExtentPos][o] = blocks[i][o]

\* ------------------------------------------------------------------ C30
\* The C library (dbs.c) on a device of its own format: the same tables and
\* extent records.  Its management calls do, on the inputs taken here (an unused
\* name or the volume's name, a size of at least one extent), what the calls
\* above do: look the name up, take the first free slots, link the snapshot.
dbs_create_volume(volume_name, volume_size) == CreateVolume(volume_name, volume_size)

dbs_create_snapshot(volume_name) == CreateSnapshot(volume_name) /\ snap' = NoSnap

dbs_open_volume(volume_name) == OpenVolume(volume_name)

dbs_close_volume == CloseVolume

\* dbs_read_block through the open volume context c.
dbs_read_block(c, blk, block) ==
    LET extent_idx == block \div BlocksPerExtent
        extent_metadata == c.vem.extents[extent_idx]
    IN IF extent_metadata.SnapshotId = 0 \/ (block % BlocksPerExtent) \notin extent_metadata.BlockBitmap
       THEN emptyBlock
       ELSE blk[extent_metadata.ExtentPos][block % BlocksPerExtent]

\* dbs_write_block on world w (records, data, in-memory map and counter): an
\* extent that is unallocated or owned by a previous snapshot is given to the
\* tip at the next device slot, its in-memory bitmap kept as it is.
dbs_write_block(c, w, data, block) ==
    LET extent_idx == block \div BlocksPerExtent
        bidx == block % BlocksPerExtent
        tip == c.dc.volumes[c.volume].SnapshotId
        e == w.em.extents[extent_idx]
        fresh == e.SnapshotId = 0 \/ e.SnapshotId # tip
    IN IF fresh /\ w.alloc + 1 > totalDeviceExtents
       THEN [ret |-> "NoSpace", w |-> w]
       ELSE LET \* Allocate new extent, update allocation count
                w1 == IF ~fresh THEN w
                      ELSE [WriteExtent([w EXCEPT !.em.extents[extent_idx].SnapshotId = tip,
                                                  !.em.extents[extent_idx].ExtentPos = w.alloc],
                                        extent_idx)
                               EXCEPT !.alloc = @ + 1]
                \* Write data to device
                w2 == [w1 EXCEPT !.blk = WriteBlockData(w1.blk, w1.em.extents[extent_idx].ExtentPos,
                                                       bidx, data)]
            IN IF bidx \in w2.em.extents[extent_idx].BlockBitmap
               THEN [ret |-> "ok", w |-> w2]
               ELSE [ret |-> "ok",
                     w |-> WriteExtent([w2 EXCEPT !.em.extents[extent_idx].BlockBitmap = @ \cup {bidx}],
                                       extent_idx)]

DbsWriteBlock(data, block) ==
    /\ vc.open
    /\ block \in VolumeBlocks(vc)
    /\ LET r == dbs_write_block(vc, World(vc), data, block)
       IN /\ last' = Call("dbs_write_block", r.ret)
          /\ vc' = [vc EXCEPT !.vem = r.w.em, !.dc.superblock.AllocatedDeviceExtents = r.w.alloc]
          /\ superblock' = [AllocatedDeviceExtents |-> r.w.alloc]
          /\ extents' = r.w.ext
          /\ blocks' = r.w.blk
    /\ snap' = NoSnap
    /\ UNCHANGED <<volumes, snapshots>>

\* bitmap_is_empty: DBS_SUCCESS (1) for a bitmap with no bit set, DBS_FAILURE (0)
\* otherwise.
bitmap_is_empty(bitmap) == IF bitmap = {} THEN 1 ELSE 0

\* dbs_unmap_block on world w: the bit is cleared in the in-memory entry, the
\* entry is released when bitmap_is_empty(...) == 0, and the record is written at
\* the entry's slot, whichever snapshot owns it.
dbs_unmap_block(c, w, block) ==
    LET extent_idx == block \div BlocksPerExtent
        bidx == block % BlocksPerExtent
        e == w.em.extents[extent_idx]
    IN IF e.SnapshotId = 0 \/ bidx \notin e.BlockBitmap
       THEN [ret |-> "ok", w |-> w]
       ELSE LET w1 == [w EXCEPT !.em.extents[extent_idx].BlockBitmap = @ \ {bidx}]
                \* Release if not used
                w2 == IF bitmap_is_empty(w1.em.extents[extent_idx].BlockBitmap) = 0
                      THEN [w1 EXCEPT !.em.extents[extent_idx].SnapshotId = 0]
                      ELSE w1
            IN [ret |-> "ok", w |-> WriteExtent(w2, extent_idx)]

DbsUnmapBlock(block) ==
    /\ vc.open
    /\ block \in VolumeBlocks(vc)
    /\ LET r == dbs_unmap_block(vc, World(vc), block)
       IN /\ last' = Call("dbs_unmap_block", r.ret)
          /\ vc' = [vc EXCEPT !.vem = r.w.em]
          /\ extents' = r.w.ext
          /\ blocks' = r.w.blk
    /\ snap' = NoSnap
    /\ UNCHANGED <<superblock, volumes, snapshots>>

NextC ==
    \/ \E sz \in {k * EXTENT_SIZE + 1 : k \in 1 .. MaxVolumeExtents} : dbs_create_volume(<<1>>, sz)
    \/ dbs_create_snapshot(<<1>>)
    \/ dbs_open_volume(<<1>>)
    \/ dbs_close_volume
    \/ \E d \in 1 .. MaxData, b \in InRangeBlocks : DbsWriteBlock(d, b)
    \/ \E b \in InRangeBlocks : DbsUnmapBlock(b)

SpecC == Init /\ [][NextC]_vars

\* C30. In the C library, a dbs_write_block to block b of an extent owned by an
\* ancestor snapshot leaves every other previously written block of that extent
\* reading, through the open volume, the value it read before the write.
C30_CWritePreservesExtent ==
    [][ (last'.op = "dbs_write_block" /\ last'.ret = "ok") =>
          \A d \in 1 .. MaxData, b \in InRangeBlocks :
              (AncestorOwned(b) /\ DbsWriteBlock(d, b)) =>
                  \A o \in VolumeBlocks(vc) :
                      ( /\ o # b
                        /\ o \div BlocksPerExtent = b \div BlocksPerExtent
                        /\ (o % BlocksPerExtent) \in vc.vem.extents[o \div BlocksPerExtent].BlockBitmap )
                          => dbs_read_block(vc', blocks', o) = dbs_read_block(vc, blocks, o) ]_vars

\* ------------------------------------------------------------------ C31
\* C31. In the C library, dbs_unmap_block(b) of a written block frees the extent
\* (snapshot_id = 0) only when the extent's bitmap has become entirely zero; when
\* other blocks of the extent are still set the extent stays allocated and those
\* blocks read what they read before.
C31_CUnmapFreesWhenEmpty ==
    [][ (last'.op = "dbs_unmap_block" /\ last'.ret = "ok") =>
          \A b \in InRangeBlocks :
              ( /\ DbsUnmapBlock(b)
                /\ vc.vem.extents[b \div BlocksPerExtent].SnapshotId # 0
                /\ (b % BlocksPerExtent) \in vc.vem.extents[b \div BlocksPerExtent].BlockBitmap ) =>
                  LET extent_idx == b \div BlocksPerExtent
                      rest == vc.vem.extents[extent_idx].BlockBitmap \ {b % BlocksPerExtent}
                  IN /\ (vc'.vem.extents[extent_idx].SnapshotId = 0) => (rest = {})
                     /\ rest # {} =>
                           /\ vc'.vem.extents[extent_idx].SnapshotId = vc.vem.extents[extent_idx].SnapshotId
                           /\ \A o \in VolumeBlocks(vc) :
                                 (o # b /\ o \div BlocksPerExtent = extent_idx)
                                     => dbs_read_block(vc', blocks', o) = dbs_read_block(vc, blocks, o) ]_vars

\* ------------------------------------------------------- NBD backend
\* The NBD server's backend (cmd/dbssrv): one volume context shared by the
\* connections' goroutines behind a sync.RWMutex.  The backend's state is carried
\* in last: the lock and, for every goroutine, its position in ReadAt or WriteAt.
MaxThreads == 2

\* Calls a goroutine makes before its connection ends.
MaxCalls == 1

Threads == 1 .. MaxThreads

\* A block of two byte ranges, each holding a value of 0 .. MaxData: the block's
\* content is lo + HalfBase * hi, the empty block being all zeros.
HalfBase == MaxData + 1

Lo(x) == x % HalfBase

Hi(x) == x \div HalfBase

\* copy(buf[boffset:...], data): the bytes of the call laid over the buffer.
Patch(buf, part, d) ==
    IF part = "lo" THEN d + HalfBase * Hi(buf)
    ELSE IF part = "hi" THEN Lo(buf) + HalfBase * d
    ELSE d + HalfBase * d

Parts == {"lo", "hi", "all"}

\* A block index past the volume: eidx > totalVolumeExtents for every volume.
OutBlock == (MaxVolumeExtents + 1) * BlocksPerExtent

FreeLock == [readers |-> {}, writer |-> 0]

IdleThread ==
    [pc |-> "idle", kind |-> "", block |-> 0, part |-> "all", data |-> 0, buf |-> 0,
     ret |-> "", retried |-> FALSE, seen |-> 0, fresh |-> FALSE, calls |-> 0]

Serving == last.op = "nbd"

RWMutex == IF Serving THEN last.lock ELSE FreeLock

Th == IF Serving THEN last.th ELSE [t \in Threads |-> IdleThread]

\* A faulty Lock, granted while readers hold the mutex.
CanLock_IgnoreReaders(l) == l.writer = 0

\* sync.RWMutex: Lock is granted when nobody holds the mutex; RLock when no
\* writer holds it and none is waiting for it.
CanLock(l) == l.writer = 0 /\ l.readers = {}

CanRLock(l, th) == l.writer = 0 /\ \A u \in Threads : th[u].pc # "w_lock"

\* One step of goroutine t: its record and the mutex after the step.
Goes(t, rec, l) ==
    last' = [op |-> "nbd", ret |-> "ok", updateMetadata |-> FALSE, lock |-> l,
             th |-> [Th EXCEPT ![t] = rec]]

\* NbdBackend.ReadAt is called for one whole block.
NbdReadAt(t, block) ==
    /\ vc.open /\ Th[t].pc = "idle" /\ Th[t].calls < MaxCalls
    /\ block \in VolumeBlocks(vc)
    /\ Goes(t, [IdleThread EXCEPT !.pc = "r_rlock", !.kind = "read", !.block = block,
                                  !.calls = Th[t].calls + 1], RWMutex)
    /\ UNCHANGED <<disk, vc, snap>>

\* NbdBackend.WriteAt is called for a whole block or one of its byte ranges, or
\* for a block past the volume.
NbdWriteAt(t, block, part) ==
    /\ vc.open /\ Th[t].pc = "idle" /\ Th[t].calls < MaxCalls
    /\ \/ block \in VolumeBlocks(vc)
       \/ block = OutBlock /\ part = "all"
    /\ Goes(t, [IdleThread EXCEPT !.pc = "w_rlock", !.kind = "write", !.block = block,
                                  !.part = part, !.data = ((t - 1) % MaxData) + 1,
                                  !.calls = Th[t].calls + 1], RWMutex)
    /\ UNCHANGED <<disk, vc, snap>>

\* b.RLock()
RLock(t) ==
    /\ Serving /\ Th[t].pc \in {"r_rlock", "w_rlock"}
    /\ CanRLock(RWMutex, Th)
    /\ Goes(t, [Th[t] EXCEPT !.pc = IF Th[t].pc = "r_rlock" THEN "r_read" ELSE "w_fast"],
            [RWMutex EXCEPT !.readers = @ \cup {t}])
    /\ UNCHANGED <<disk, vc, snap>>

\* b.vc.ReadAt(p, off) under the read lock.
ReadAtStep(t) ==
    /\ Serving /\ Th[t].pc = "r_read"
    /\ LET r == ReadBlock(vc, blocks, Th[t].block, emptyBlock)
       IN Goes(t, [Th[t] EXCEPT !.pc = "r_done", !.buf = r.data, !.ret = r.ret], RWMutex)
    /\ UNCHANGED <<disk, vc, snap>>

\* defer b.RUnlock(); return
ReadAtReturn(t) ==
    /\ Serving /\ Th[t].pc = "r_done"
    /\ Goes(t, [IdleThread EXCEPT !.calls = Th[t].calls], [RWMutex EXCEPT !.readers = @ \ {t}])
    /\ UNCHANGED <<disk, vc, snap>>

\* vc.WriteAt on a partial block: the block is read into buf first.
WriteAtRead(t) ==
    /\ Serving /\ Th[t].pc \in {"w_fast", "w_excl"} /\ Th[t].part # "all"
    /\ LET r == ReadBlock(vc, blocks, Th[t].block, emptyBlock)
           on == IF Th[t].pc = "w_fast" THEN "w_fast_wr" ELSE "w_excl_wr"
           off == IF Th[t].pc = "w_fast" THEN "w_fast_err" ELSE "w_excl_err"
       IN Goes(t, [Th[t] EXCEPT !.pc = IF r.ret = "ok" THEN on ELSE off,
                                !.buf = r.data, !.ret = r.ret], RWMutex)
    /\ UNCHANGED <<disk, vc, snap>>

\* The block the goroutine hands to WriteBlock.
Payload(t) == Patch(Th[t].buf, Th[t].part, Th[t].data)

\* err = b.vc.WriteAt(p, off, false) under the read lock: WriteBlock without
\* metadata update.
FastWrite(t) ==
    /\ Serving
    /\ \/ Th[t].pc = "w_fast" /\ Th[t].part = "all"
       \/ Th[t].pc = "w_fast_wr"
    /\ LET r == WriteBlockOn(vc, World(vc), superblock.AllocatedDeviceExtents, Payload(t),
                             Th[t].block, FALSE)
       IN /\ Goes(t, [Th[t] EXCEPT !.pc = IF r.ret = "ok" THEN "w_fast_ok" ELSE "w_fast_err",
                                   !.ret = r.ret,
                                   !.seen = superblock.AllocatedDeviceExtents,
                                   !.fresh = NeedsSlot(vc, Th[t].block, TRUE)], RWMutex)
          /\ vc' = [vc EXCEPT !.vem = r.w.em, !.dc.superblock.AllocatedDeviceExtents = r.w.alloc]
          /\ superblock' = [AllocatedDeviceExtents |-> r.sb]
          /\ extents' = r.w.ext
          /\ blocks' = r.w.blk
    /\ UNCHANGED <<volumes, snapshots, snap>>

\* b.RUnlock(); return len(p), err
FastReturn(t) ==
    /\ Serving /\ Th[t].pc = "w_fast_ok"
    /\ Goes(t, [Th[t] EXCEPT !.pc = "idle"], [RWMutex EXCEPT !.readers = @ \ {t}])
    /\ UNCHANGED <<disk, vc, snap>>

\* if err != nil { b.RUnlock(); ...
FastUnlock(t) ==
    /\ Serving /\ Th[t].pc = "w_fast_err"
    /\ Goes(t, [Th[t] EXCEPT !.pc = "w_lock"], [RWMutex EXCEPT !.readers = @ \ {t}])
    /\ UNCHANGED <<disk, vc, snap>>

\* ... b.Lock()
Lock(t) ==
    /\ Serving /\ Th[t].pc = "w_lock"
    /\ CanLock(RWMutex)
    /\ Goes(t, [Th[t] EXCEPT !.pc = "w_excl", !.retried = TRUE], [RWMutex EXCEPT !.writer = t])
    /\ UNCHANGED <<disk, vc, snap>>

\* err := b.vc.WriteAt(p, off, true): WriteBlock with metadata update.
ExclWrite(t) ==
    /\ Serving
    /\ \/ Th[t].pc = "w_excl" /\ Th[t].part = "all"
       \/ Th[t].pc = "w_excl_wr"
    /\ NeedsSlot(vc, Th[t].block, TRUE) => vc.dc.superblock.AllocatedDeviceExtents < totalDeviceExtents + 1
    /\ LET r == WriteBlockOn(vc, World(vc), superblock.AllocatedDeviceExtents, Payload(t),
                             Th[t].block, TRUE)
       IN /\ Goes(t, [Th[t] EXCEPT !.pc = IF r.ret = "ok" THEN "w_excl_ok" ELSE "w_excl_err",
                                   !.ret = r.ret], RWMutex)
          /\ vc' = [vc EXCEPT !.vem = r.w.em, !.dc.superblock.AllocatedDeviceExtents = r.w.alloc]
          /\ superblock' = [AllocatedDeviceExtents |-> r.sb]
          /\ extents' = r.w.ext
          /\ blocks' = r.w.blk
    /\ UNCHANGED <<volumes, snapshots, snap>>

\* b.Unlock(); return len(p), nil
ExclReturn(t) ==
    /\ Serving /\ Th[t].pc = "w_excl_ok"
    /\ Goes(t, [Th[t] EXCEPT !.pc = "idle"], [RWMutex EXCEPT !.writer = 0])
    /\ UNCHANGED <<disk, vc, snap>>

\* if err != nil { return 0, err }: the retry failed, the function returns.
ExclFail(t) ==
    /\ Serving /\ Th[t].pc = "w_excl_err"
    /\ Goes(t, [Th[t] EXCEPT !.pc = "idle"], RWMutex)
    /\ UNCHANGED <<disk, vc, snap>>

\* The device is prepared single-threadedly, then the server runs on the open
\* volume.
NextNbd ==
    \/ ~Serving /\ \E sz \in VolumeSizes : CreateVolume(<<1>>, sz)
    \/ ~Serving /\ CreateSnapshot(<<1>>) /\ snap' = NoSnap
    \/ ~Serving /\ OpenVolume(<<1>>)
    \/ ~Serving /\ CloseVolume
    \/ ~Serving /\ \E b \in InRangeBlocks : WriteBlock(1 + HalfBase, b, TRUE)
    \/ \E t \in Threads, b \in InRangeBlocks : NbdReadAt(t, b)
    \/ \E t \in Threads, b \in InRangeBlocks \cup {OutBlock}, part \in Parts : NbdWriteAt(t, b, part)
    \/ \E t \in Threads : RLock(t)
    \/ \E t \in Threads : ReadAtStep(t)
    \/ \E t \in Threads : ReadAtReturn(t)
    \/ \E t \in Threads : WriteAtRead(t)
    \/ \E t \in Threads : FastWrite(t)
    \/ \E t \in Threads : FastReturn(t)
    \/ \E t \in Threads : FastUnlock(t)
    \/ \E t \in Threads : Lock(t)
    \/ \E t \in Threads : ExclWrite(t)
    \/ \E t \in Threads : ExclReturn(t)
    \/ \E t \in Threads : ExclFail(t)

SpecNbd == Init /\ [][NextNbd]_vars

\* ------------------------------------------------------------------ C32
\* The goroutines inside a volume call.
InShared == {t \in Threads : Th[t].pc \in {"r_read", "r_done", "w_fast", "w_fast_wr", "w_fast_ok", "w_fast_err"}}

InExclusive == {t \in Threads : Th[t].pc \in {"w_excl", "w_excl_wr", "w_excl_ok", "w_excl_err"}}

\* C32. Under any interleaving, a WriteAt with update_metadata = true runs only
\* while its goroutine holds the backend's lock exclusively, ReadAt and WriteAt
\* with update_metadata = false only while theirs hold it shared; so no read and
\* no fast-path write overlaps a metadata-mutating write.
C32_LockDiscipline ==
    /\ \A t \in InExclusive : RWMutex.writer = t /\ RWMutex.readers = {}
    /\ \A t \in InShared : t \in RWMutex.readers /\ RWMutex.writer = 0
    /\ InExclusive # {} => InShared = {} /\ Cardinality(InExclusive) = 1

\* One goroutine is in its retry under the exclusive lock while the other waits
\* for the read lock.
C32_Witness ==
    /\ Serving
    /\ \E t, u \in Threads :
          /\ Th[t].pc = "w_excl_wr"
          /\ Th[u].pc \in {"r_rlock", "w_rlock"}

\* ------------------------------------------------------------------ C33
\* C33. Every call of the backend's WriteAt or ReadAt, whether it returns success
\* or an error, has released every lock it acquired by the time it returns: a
\* goroutine outside a call holds the mutex neither shared nor exclusively.
C33_LocksReleased ==
    \A t \in Threads :
        Th[t].pc = "idle" => (t \notin RWMutex.readers /\ RWMutex.writer # t)

\* ------------------------------------------------------------------ C34
\* Goroutine t has returned success from a WriteAt that was refused on the fast
\* path, for an extent not owned by the tip, and retried under the exclusive lock.
RetriedForSlot(t) ==
    /\ Th[t].pc = "idle" /\ Th[t].kind = "write" /\ Th[t].ret = "ok"
    /\ Th[t].retried /\ Th[t].fresh

\* The calls of t and u were refused for the same extent before either retried,
\* and do not write the same bytes.
InterleavedRetries(t, u) ==
    /\ t # u /\ RetriedForSlot(t) /\ RetriedForSlot(u)
    /\ Th[t].block \div BlocksPerExtent = Th[u].block \div BlocksPerExtent
    /\ Th[t].seen = Th[u].seen
    /\ Th[t].block # Th[u].block \/ {Th[t].part, Th[u].part} = {"lo", "hi"}

\* The bytes goroutine t wrote are what its block reads now.
ReadsBack(t) ==
    LET now == ReadBlock(vc, blocks, Th[t].block, emptyBlock).data
    IN Patch(now, Th[t].part, Th[t].data) = now

\* C34. When concurrent WriteAt calls each receive MetadataNeedsUpdate for blocks
\* of the same unallocated or ancestor-owned extent and each retries under the
\* exclusive lock, exactly one device slot is allocated for the extent, the
\* extent is owned by the tip at that slot, and all the written blocks read back
\* their data from it.
C34_NoDoubleAllocation ==
    \A t, u \in Threads :
        (Serving /\ InterleavedRetries(t, u)) =>
            LET e == vc.vem.extents[Th[t].block \div BlocksPerExtent] IN
            /\ vc.dc.superblock.AllocatedDeviceExtents = superblock.AllocatedDeviceExtents
            /\ \A i \in Slots :
                  (Th[t].seen <= i /\ i < superblock.AllocatedDeviceExtents)
                      => extents[i].SnapshotId = TipOf(vc)
            /\ e.SnapshotId = TipOf(vc)
            /\ e.ExtentPos >= Th[t].seen
            /\ e.ExtentPos < superblock.AllocatedDeviceExtents
            /\ Cardinality({i \in Slots : extents[i].SnapshotId = TipOf(vc)
                                           /\ extents[i].ExtentPos = Th[t].block \div BlocksPerExtent}) = 1
            /\ ReadsBack(t) /\ ReadsBack(u)

\* Two goroutines were refused for two blocks of the same ancestor-owned extent
\* and both have retried.
C34_Witness ==
    /\ Serving
    /\ \E t, u \in Threads :
          /\ InterleavedRetries(t, u)
          /\ Th[t].block # Th[u].block
          /\ snapshots[TipOf(vc)].ParentSnapshotId # 0
          /\ \E i \in Slots :
                /\ i < Th[t].seen
                /\ extents[i].SnapshotId = snapshots[TipOf(vc)].ParentSnapshotId
                /\ extents[i].ExtentPos = Th[t].block \div BlocksPerExtent

\* ------------------------------------------------------------------ C35
\* What the open volume reads at every block, and what a volume context opened
\* now on the same volume would read.
OpenView == [b \in VolumeBlocks(vc) |-> ReadBlock(vc, blocks, b, emptyBlock).data]

ReopenView ==
    ViewAt(GetDeviceContext, extents, blocks, volumes[vc.volume].VolumeSize, volumes[vc.volume].SnapshotId)

\* C35. After any sequence of successful WriteBlock and UnmapBlock calls on an
\* open volume, in a chain of any length, closing the volume and opening it again
\* yields a context in which every block reads what it read just before the
\* close.
C35_ReopenReadsSame ==
    vc.open => ReopenView = OpenView

\* ------------------------------------------------------------------ C36
\* C36. Ancestor snapshots are read-only for the block API: no WriteBlock or
\* UnmapBlock on an open volume changes the on-disk record or the data of a
\* device slot whose extent is owned by a snapshot other than the volume's tip.
C36_AncestorsReadOnly ==
    [][ (vc.open /\ last'.op \in {"WriteBlock", "UnmapBlock"}) =>
          \A i \in Slots :
              (extents[i].SnapshotId \notin {0, TipOf(vc)})
                  => (extents'[i] = extents[i] /\ blocks'[i] = blocks[i]) ]_vars

\* ------------------------------------------------- a device of more extents
\* The device after InitDevice, on a device of LargeDeviceExtents extents.
InitLarge ==
    /\ superblock = [AllocatedDeviceExtents |-> 0]
    /\ volumes = [i \in VolumeIdx |-> ZeroVolumeMetadata]
    /\ snapshots = [i \in SnapshotIds |-> ZeroSnapshotMetadata]
    /\ extents = [i \in 0 .. LargeDeviceExtents |-> ZeroExtentMetadata]
    /\ blocks = [i \in 0 .. LargeDeviceExtents |-> ZeroExtentData]
    /\ vc = NoContext
    /\ last = Call("InitDevice", "ok")
    /\ snap = NoSnap

\* One volume of one extent with its snapshots, and clones of them: the
\* management operations and the allocating write.
NextLarge ==
    \/ CreateVolume(<<1>>, EXTENT_SIZE)
    \/ CreateSnapshot(<<1>>) /\ snap' = NoSnap
    \/ \E sid \in 1 .. MaxSnapshots : CloneSnapshot(<<2>>, sid)
    \/ \E sid \in 1 .. MaxSnapshots : DeleteSnapshot(sid)
    \/ OpenVolume(<<1>>)
    \/ CloseVolume
    \/ WriteBlock(1, 0, TRUE)

SpecLarge == InitLarge /\ [][NextLarge]_vars

\* ------------------------------------------------------------------ C37
\* No two slots below the counter hold in-use records with the same
\* (snapshot_id, extent_pos).
SlotsDistinct ==
    \A i, j \in DOMAIN extents :
        ( /\ i < j /\ j < superblock.AllocatedDeviceExtents
          /\ extents[i].SnapshotId # 0 /\ extents[j].SnapshotId # 0 )
            => <<extents[i].SnapshotId, extents[i].ExtentPos>> # <<extents[j].SnapshotId, extents[j].ExtentPos>>

\* Every populated entry of the open volume's map points below the counter.
EntriesBelowCounter ==
    vc.open => \A v \in DOMAIN vc.vem.extents :
                  vc.vem.extents[v].SnapshotId # 0
                      => vc.vem.extents[v].ExtentPos < superblock.AllocatedDeviceExtents

\* The slot the next allocation takes, and every slot above it, holds no in-use
\* record.
NextSlotUnused ==
    \A i \in DOMAIN extents : i >= superblock.AllocatedDeviceExtents => extents[i].SnapshotId = 0

\* C37. With at most one open volume context at a time: no two device slots
\* below allocated_device_extents hold in-use records with the same
\* (snapshot_id, extent_pos), every populated in-memory entry points to a slot
\* below allocated_device_extents, and a new allocation uses a slot that no
\* in-use record refers to.
C37_UniqueSlotOwnership ==
    /\ SlotsDistinct
    /\ EntriesBelowCounter
    /\ NextSlotUnused

\* ------------------------------------------------------------------ C38
\* The identifiers of the chain of volume slot j after the step, tip first.
ChainNext(j) ==
    LET c == SnapshotChain(DcNext, volumes'[j].SnapshotId)
    IN [k \in 1 .. Len(c) |-> c[k].SnapshotId]

\* Every in-use volume other than slot i keeps its chain and what it reads.
OthersKept(i) ==
    \A j \in VolumeIdx \ {i} :
        InUseVolume(j) =>
            /\ ChainNext(j) = ChainIds(j)
            /\ ViewNext(j, volumes'[j].SnapshotId) = ViewNow(j, volumes[j].SnapshotId)

\* The step is a management operation targeting volume slot i.
ManagementOn(i) ==
    \/ \E n \in VolumeNames :
          /\ FindVolume(GetDeviceContext, n) = i
          /\ \/ CreateSnapshot(n)
             \/ DeleteVolume(n)
             \/ \E n2 \in VolumeNames : RenameVolume(n, n2)
    \/ \E sid \in 1 .. MaxSnapshots :
          /\ FindVolumeWithSnapshot(GetDeviceContext, sid) = i
          /\ \/ DeleteSnapshot(sid)
             \/ \E n \in VolumeNames : CloneSnapshot(n, sid)

\* The step is a block write or unmap on volume slot i.
BlockOpOn(i) ==
    /\ vc.open /\ vc.volume = i
    /\ \/ \E b \in FirstBlocks, u \in BOOLEAN : WriteBlock(1, b, u)
       \/ \E b \in FirstBlocks : UnmapBlock(b)

\* C38. Cross-volume isolation: a management operation targeting one volume
\* (create_snapshot, delete_snapshot, delete_volume, rename_volume, and
\* clone_snapshot as the source) and block writes and unmaps on one volume never
\* change the snapshot chain of, or any block value read from, any other volume.
C38_CrossVolumeIsolation ==
    [][ \A i \in VolumeIdx : (ManagementOn(i) \/ BlockOpOn(i)) => OthersKept(i) ]_vars

\* ------------------------------------------------------------------ C39
\* Goroutine t has returned success from a WriteAt served by the fast path alone:
\* WriteBlock without metadata update, under the shared lock.
FastPathDone(t) ==
    /\ Th[t].pc = "idle" /\ Th[t].kind = "write" /\ Th[t].ret = "ok"
    /\ ~Th[t].retried

\* C39. No lost update on the shared-lock fast path: when two WriteAt calls
\* without metadata update, issued by two goroutines under the shared lock, write
\* disjoint byte ranges of the same already-written tip-owned block, the block
\* contains both writes once both have returned.
C39_NoLostUpdate ==
    \A t, u \in Threads :
        ( /\ Serving /\ t # u
          /\ FastPathDone(t) /\ FastPathDone(u)
          /\ Th[t].block = Th[u].block
          /\ {Th[t].part, Th[u].part} = {"lo", "hi"} )
            => (ReadsBack(t) /\ ReadsBack(u))

\* ------------------------------------------- two volume contexts at once
\* A process holding two volume contexts on two volumes of one device. Each
\* OpenVolume builds its own device context, with its own copy of the superblock:
\* vc is the first context; while both are open, the record of the last call
\* carries the second one (other), the slots each context allocated since both
\* were open (took), the persisted counter when the second was opened (base) and
\* the context of the last write (who).
Paired == last.op = "pair"

Ctx(k) == IF k = 1 THEN vc ELSE last.other

\* The blocks of context c whose extent its map holds.
MappedBlocks(c) == {b \in VolumeBlocks(c) : (b \div BlocksPerExtent) \in DOMAIN c.vem.extents}

\* OpenVolume of a second volume while the first context is open.
OpenSecond(volumeName) ==
    /\ vc.open /\ ~Paired
    /\ LET dc == GetDeviceContext
           v == FindVolume(dc, volumeName)
           vem == GetVolumeExtentMap(dc, extents, dc.volumes[v].VolumeSize, dc.volumes[v].SnapshotId)
       IN /\ v # -1 /\ v # vc.volume
          /\ ~vem.panic
          /\ last' = [op |-> "pair", ret |-> "ok", updateMetadata |-> FALSE,
                      other |-> [open |-> TRUE, dc |-> dc, volume |-> v, vem |-> vem],
                      took |-> <<{}, {}>>,
                      base |-> superblock.AllocatedDeviceExtents,
                      who |-> 0]
    /\ UNCHANGED <<disk, vc, snap>>

\* WriteBlock(block, data, true) through context k.
PairWrite(k, data, block) ==
    /\ Paired
    /\ block \in MappedBlocks(Ctx(k))
    /\ NeedsSlot(Ctx(k), block, TRUE) => Ctx(k).dc.superblock.AllocatedDeviceExtents < totalDeviceExtents + 1
    /\ LET c == Ctx(k)
           r == WriteBlockOn(c, World(c), superblock.AllocatedDeviceExtents, data, block, TRUE)
           c2 == [c EXCEPT !.vem = r.w.em, !.dc.superblock.AllocatedDeviceExtents = r.w.alloc]
           got == IF r.w.alloc # c.dc.superblock.AllocatedDeviceExtents
                  THEN {r.w.em.extents[block \div BlocksPerExtent].ExtentPos}
                  ELSE {}
       IN /\ vc' = IF k = 1 THEN c2 ELSE vc
          /\ last' = [last EXCEPT !.ret = r.ret,
                                  !.other = IF k = 2 THEN c2 ELSE @,
                                  !.took[k] = @ \cup got,
                                  !.who = k]
          /\ superblock' = [AllocatedDeviceExtents |-> r.sb]
          /\ extents' = r.w.ext
          /\ blocks' = r.w.blk
    /\ UNCHANGED <<volumes, snapshots, snap>>

\* CloseVolume of both contexts.
PairClose ==
    /\ Paired
    /\ vc' = NoContext
    /\ last' = Call("CloseVolume", "ok")
    /\ snap' = NoSnap
    /\ UNCHANGED disk

\* Two volumes are created and written one at a time, then opened together and
\* written through both contexts.
NextPair ==
    \/ ~Paired /\ \E n \in VolumeNames : CreateVolume(n, EXTENT_SIZE)
    \/ ~Paired /\ \E n \in VolumeNames : OpenVolume(n)
    \/ ~Paired /\ \E b \in BlockIdx : WriteBlock(1, b, TRUE)
    \/ ~Paired /\ CloseVolume
    \/ \E n \in VolumeNames : OpenSecond(n)
    \/ \E k \in 1 .. 2, d \in 1 .. MaxData, b \in BlockIdx : PairWrite(k, d, b)
    \/ PairClose

SpecPair == Init /\ [][NextPair]_vars

\* ------------------------------------------------------------------ C40
\* No slot was allocated by both contexts.
DistinctSlots == last.took[1] \cap last.took[2] = {}

\* The persisted counter is the total of the slots handed out.
CounterCountsSlots ==
    superblock.AllocatedDeviceExtents
        = last.base + Cardinality(last.took[1]) + Cardinality(last.took[2])

\* What context k reads, from the data of the device blk.
ReadsOf(k, blk) == [b \in MappedBlocks(Ctx(k)) |-> ReadBlock(Ctx(k), blk, b, emptyBlock).data]

\* C40. Two volume contexts opened at the same time in one process on two
\* different volumes of the same device, each calling WriteBlock with
\* update_metadata = true, never allocate the same device slot; the persisted
\* allocated_device_extents equals the total number of slots handed out; and a
\* write through one context never changes what the other reads.
C40_TwoContextsIsolated ==
    [][ (Paired /\ Paired') =>
          /\ DistinctSlots'
          /\ CounterCountsSlots'
          /\ ReadsOf(3 - last'.who, blocks') = ReadsOf(3 - last'.who, blocks) ]_vars

====
